---- MODULE Spec2Model ----
(***************************************************************************)
(* Task-vector algebra of src/src/task_vectors.py and the main flow of      *)
(* src/src/arithmetic.py.                                                   *)
(*                                                                          *)
(* A tensor is modelled by its dtype, its shape and the value of its        *)
(* elements: the inputs are tensors filled with one value (torch.full), and *)
(* every operation of the code is elementwise with broadcasting, so its     *)
(* result is again filled with one value, of the broadcast shape.           *)
(*                                                                          *)
(* A floating-point value is a binary floating-point number of Prec         *)
(* significant bits on a grid of 2^-FracBits (float32 has 24 and 149), kept *)
(* as its integer multiple of the grid step; every floating-point operation *)
(* rounds its exact result to nearest, ties to even.  Integer dtypes hold   *)
(* multiples of One; uint8 arithmetic wraps modulo 256.  The conversion of a *)
(* floating-point value outside 0..255 to uint8 is undefined in the C++ of  *)
(* torch: it wraps or saturates, as the build has it.                       *)
(***************************************************************************)
EXTENDS Integers, Sequences, FiniteSets, TLC

\* ------------------------------------------------------------------------
\* Bounds of the model
\* ------------------------------------------------------------------------

\* significant bits of the floating-point format
Prec == 3

\* fractional bits of the floating-point grid
FracBits == 1

\* calls an interactive session makes on the TaskVector class
MaxCalls == 2

\* finetuned encoders (datasets) of one run of the main flow
MaxDatasets == 2

\* calls of one computation on loaded task vectors
MaxAlgebraCalls == 3

\* in_features and out_features of a layer of delta.py
MaxFeatures == 2

\* rank of a layer
MaxRank == 1

\* rows of an input batch
MaxBatch == 2

\* calls made on one layer after its construction
MaxLayerCalls == 2

\* transformer layers of the encoder that is finetuned
MaxLayers == 1

\* gradient-accumulation steps of a training run
MaxAccum == 2

\* epochs of a training run
MaxEpochs == 2

\* batches the train loader yields in one pass
MaxBatches == 3

\* calls of get_features in one run
MaxFeatureCalls == 2

\* ------------------------------------------------------------------------
\* Numbers
\* ------------------------------------------------------------------------

RECURSIVE Pow2(_)
Pow2(n) == IF n <= 0 THEN 1 ELSE 2 * Pow2(n - 1)

\* the grid multiple of the real number 1
One == Pow2(FracBits)

Abs(x) == IF x < 0 THEN -x ELSE x

Sign(x) == IF x < 0 THEN -1 ELSE 1

\* the least e >= 0 with n < d * 2^(Prec + e): the exponent of n/d's binade
RECURSIVE Exponent(_, _, _)
Exponent(n, d, e) == IF n < d * Pow2(Prec + e) THEN e ELSE Exponent(n, d, e + 1)

\* n/d (d > 0) rounded to the floating-point format: to nearest, ties to even
RoundRat(n, d) ==
    LET a    == Abs(n)
        e    == Exponent(a, d, 0)
        unit == d * Pow2(e)
        q    == a \div unit
        r    == a % unit
        up   == (2 * r > unit) \/ (2 * r = unit /\ q % 2 = 1)
    IN  Sign(n) * (IF up THEN q + 1 ELSE q) * Pow2(e)

\* an integer multiple of the grid step rounded to the format
Fl(x) == RoundRat(x, 1)

\* a number truncated toward zero to a whole number (a multiple of One)
Trunc(x) == Sign(x) * ((Abs(x) \div One) * One)

\* ------------------------------------------------------------------------
\* Tensors: [dt, sh, v]
\* ------------------------------------------------------------------------

\* torch.int64 and torch.uint8, the dtypes TaskVector.__init__ skips
ExcludedDTypes == {"int64", "uint8"}

IntDTypes == {"int64", "int32", "uint8"}

IsFloat(dt) == dt = "float32"

T(dt, sh, v) == [dt |-> dt, sh |-> sh, v |-> v]

\* the value x as a tensor element of dtype dt holds it
Conv(dt, x) ==
    IF IsFloat(dt) THEN Fl(x)
    ELSE IF dt = "uint8" THEN Trunc(x) % (256 * One)
    ELSE Trunc(x)

\* torch's type promotion of two tensors
Promote(d1, d2) ==
    IF IsFloat(d1) \/ IsFloat(d2) THEN "float32"
    ELSE IF d1 = "int64" \/ d2 = "int64" THEN "int64"
    ELSE IF d1 = "int32" \/ d2 = "int32" THEN "int32"
    ELSE "uint8"

Max(a, b) == IF a >= b THEN a ELSE b

\* dimension i (of n, counted from the left) of shape s aligned to the right
Dim(s, n, i) == IF i <= n - Len(s) THEN 1 ELSE s[i - (n - Len(s))]

\* torch's broadcasting rule: aligned dimensions are equal or one of them is 1
Broadcastable(s, t) ==
    LET n == Max(Len(s), Len(t))
    IN  \A i \in 1..n : Dim(s, n, i) = Dim(t, n, i) \/ Dim(s, n, i) = 1 \/ Dim(t, n, i) = 1

BroadcastShape(s, t) ==
    LET n == Max(Len(s), Len(t))
    IN  [i \in 1..n |-> Max(Dim(s, n, i), Dim(t, n, i))]

\* a - b, a + b of torch, on broadcastable operands
TensorSub(a, b) ==
    LET dt == Promote(a.dt, b.dt)
    IN  T(dt, BroadcastShape(a.sh, b.sh), Conv(dt, Conv(dt, a.v) - Conv(dt, b.v)))

TensorAdd(a, b) ==
    LET dt == Promote(a.dt, b.dt)
    IN  T(dt, BroadcastShape(a.sh, b.sh), Conv(dt, Conv(dt, a.v) + Conv(dt, b.v)))

\* -a of torch
TensorNeg(a) == T(a.dt, a.sh, Conv(a.dt, -a.v))

\* c * a for a Python float c: an integer tensor is promoted to float32
ScalarMul(c, a) == T("float32", a.sh, RoundRat(Fl(c) * Fl(a.v), One))

\* a / n for a Python int n (true division): the result is float32
TensorDiv(a, n) == T("float32", a.sh, RoundRat(Fl(a.v), n))

\* torch.zeros_like(a)
ZerosLike(a) == T(a.dt, a.sh, 0)

\* what a build makes of a floating-point value that uint8 cannot hold
Casts == {"wrap", "saturate"}

\* param.copy_(input) of load_state_dict: the parameter keeps its dtype and shape
CopyInto(param, input, cast) ==
    LET x == Trunc(input.v)
    IN  IF /\ IsFloat(input.dt) /\ param.dt = "uint8" /\ cast = "saturate"
           /\ (x < 0 \/ x > 255 * One)
            THEN T(param.dt, param.sh, IF x < 0 THEN 0 ELSE 255 * One)
        ELSE T(param.dt, param.sh, Conv(param.dt, input.v))

\* ------------------------------------------------------------------------
\* Parameter maps (state dicts): functions from a set of keys to tensors
\* ------------------------------------------------------------------------

\* the parameter names of the architectures, in registration order
KeyOrder == <<"ln.weight", "attn.Delta.D", "attn.Delta.U", "bn.steps">>

Keys == {KeyOrder[i] : i \in DOMAIN KeyOrder}

\* "Delta" in key
HasDelta(key) == key \in {"attn.Delta.D", "attn.Delta.U"}

\* "Delta.U" in key
HasDeltaU(key) == key \in {"attn.Delta.U"}

EmptyMap == << >>

\* the keys of a dict in iteration order
KeysOf(m) == SelectSeq(KeyOrder, LAMBDA k : k \in DOMAIN m)

\* d[key] = t
Put(m, key, t) == [k \in (DOMAIN m) \cup {key} |-> IF k = key THEN t ELSE m[k]]

\* what a call gives: a value, or the exception it raised, and what it printed
Returned(val, warn) == [err |-> "none", val |-> val, warn |-> warn]

Raised(err) == [err |-> err, val |-> EmptyMap, warn |-> {}]

\* ------------------------------------------------------------------------
\* class TaskVector
\* ------------------------------------------------------------------------

\* __init__, the loop over pretrained_state_dict
RECURSIVE InitLoop(_, _, _, _)
InitLoop(pre, fin, ks, vector) ==
    IF ks = << >> THEN Returned(vector, {})
    ELSE LET key == Head(ks) IN
         IF pre[key].dt \in ExcludedDTypes
             THEN InitLoop(pre, fin, Tail(ks), vector)
         ELSE IF key \notin DOMAIN fin THEN Raised("KeyError")
         ELSE IF ~Broadcastable(fin[key].sh, pre[key].sh) THEN Raised("RuntimeError")
         ELSE InitLoop(pre, fin, Tail(ks),
                       Put(vector, key, TensorSub(fin[key], pre[key])))

\* (mutant) pretrained - finetuned: the operands of the subtraction exchanged
TaskVectorInit_Swapped(pre, fin) ==
    IF ~(DOMAIN pre \subseteq DOMAIN fin) THEN Raised("KeyError")
    ELSE InitLoop(fin, [k \in DOMAIN fin |-> IF k \in DOMAIN pre THEN pre[k] ELSE fin[k]],
                  KeysOf(pre), EmptyMap)

\* (mutant) a key that the finetuned map lacks is skipped
TaskVectorInit_SkipMissing(pre, fin) ==
    LET both == [k \in (DOMAIN pre) \cap (DOMAIN fin) |-> pre[k]]
    IN  InitLoop(both, fin, KeysOf(both), EmptyMap)

\* TaskVector(pretrained_checkpoint, finetuned_checkpoint): the new self.vector
TaskVectorInit(pre, fin) == InitLoop(pre, fin, KeysOf(pre), EmptyMap)

\* __add__, the loop over self.vector
RECURSIVE AddLoop(_, _, _, _, _)
AddLoop(self, other, ks, new, warn) ==
    IF ks = << >> THEN Returned(new, warn)
    ELSE LET key == Head(ks) IN
         IF key \notin DOMAIN other
             THEN AddLoop(self, other, Tail(ks), new, warn \cup {key})
         ELSE IF ~Broadcastable(self[key].sh, other[key].sh) THEN Raised("RuntimeError")
         ELSE AddLoop(self, other, Tail(ks),
                      Put(new, key, TensorAdd(self[key], other[key])), warn)

\* (mutant) no test for a key that other lacks: other.vector[key] raises
TaskVectorAdd_Strict(self, other) ==
    IF ~(DOMAIN self \subseteq DOMAIN other) THEN Raised("KeyError")
    ELSE AddLoop(self, other, KeysOf(self), EmptyMap, {})

\* self + other: the new_vector of the result
TaskVectorAdd(self, other) == AddLoop(self, other, KeysOf(self), EmptyMap, {})

\* __neg__, the loop over self.vector
RECURSIVE NegLoop(_, _, _)
NegLoop(self, ks, new) ==
    IF ks = << >> THEN Returned(new, {})
    ELSE NegLoop(self, Tail(ks), Put(new, Head(ks), TensorNeg(self[Head(ks)])))

\* (mutant) new_vector[key] = self.vector[key]: a copy, not negated
TaskVectorNeg_Copy(self) == Returned(self, {})

\* -self: the new_vector of the result
TaskVectorNeg(self) == NegLoop(self, KeysOf(self), EmptyMap)

\* apply_to, the loop over pretrained_state_dict
RECURSIVE ApplyLoop(_, _, _, _, _, _)
ApplyLoop(vector, base, coef, ks, new, warn) ==
    IF ks = << >> THEN Returned(new, warn)
    ELSE LET key == Head(ks) IN
         IF key \notin DOMAIN vector
             THEN ApplyLoop(vector, base, coef, Tail(ks), new, warn \cup {key})
         ELSE IF ~Broadcastable(base[key].sh, vector[key].sh) THEN Raised("RuntimeError")
         ELSE ApplyLoop(vector, base, coef, Tail(ks),
                        Put(new, key, TensorAdd(base[key], ScalarMul(coef, vector[key]))),
                        warn)

\* module.load_state_dict(sd, strict=False): keys the module lacks are ignored,
\* keys sd lacks keep their value, a tensor of another shape is an error
LoadStateDict(params, sd, cast) ==
    IF \E k \in (DOMAIN params) \cap (DOMAIN sd) : sd[k].sh # params[k].sh
        THEN Raised("RuntimeError")
    ELSE Returned([k \in DOMAIN params |->
                      IF k \in DOMAIN sd THEN CopyInto(params[k], sd[k], cast)
                                         ELSE params[k]],
                  {})

\* (mutant) the scaling coefficient is not used: base + vector
TaskVectorApplyTo_Unscaled(vector, base, coef, cast) ==
    LET new == ApplyLoop(vector, base, One, KeysOf(base), EmptyMap, {})
    IN  IF new.err # "none" THEN new
        ELSE LET loaded == LoadStateDict(base, new.val, cast)
             IN  IF loaded.err # "none" THEN loaded
                 ELSE Returned(loaded.val, new.warn)

\* self.apply_to(pretrained_checkpoint, scaling_coef): the parameters of the
\* deep copy that is returned
TaskVectorApplyTo(vector, base, coef, cast) ==
    LET new == ApplyLoop(vector, base, coef, KeysOf(base), EmptyMap, {})
    IN  IF new.err # "none" THEN new
        ELSE LET loaded == LoadStateDict(base, new.val, cast)
             IN  IF loaded.err # "none" THEN loaded
                 ELSE Returned(loaded.val, new.warn)

\* the loops of arithmetic.py that zero the "Delta" entries of a state dict,
\* followed by load_state_dict(state_dict, strict=False); every tensor copied
\* has the dtype of its parameter, so that no cast is out of range
ZeroDelta(params) ==
    LoadStateDict(params,
        [k \in DOMAIN params |-> IF HasDelta(k) THEN ZerosLike(params[k]) ELSE params[k]],
        "wrap").val

\* (mutant) the loop divides every entry, not only the "Delta.U" ones
RescaleDeltaU_EveryKey(vector, n) ==
    [k \in DOMAIN vector |-> TensorDiv(vector[k], n)]

\* the loop of arithmetic.py over task_vector.vector.keys() that divides the
\* "Delta.U" entries by len(finetuned_encoders)
RescaleDeltaU(vector, n) ==
    [k \in DOMAIN vector |-> IF HasDeltaU(k) THEN TensorDiv(vector[k], n) ELSE vector[k]]

\* torch.save(self.vector, path): the entries of the dict in iteration order,
\* each tensor with its dtype, its shape and its stored elements
Serialize(vector) ==
    LET ks == KeysOf(vector)
    IN  [i \in 1..Len(ks) |->
            [key |-> ks[i], dt |-> vector[ks[i]].dt, sh |-> vector[ks[i]].sh,
             v |-> vector[ks[i]].v]]

\* torch_load(path): the dict rebuilt from the entries of the file, in order
RECURSIVE Deserialize(_, _)
Deserialize(entries, vector) ==
    IF entries = << >> THEN vector
    ELSE LET e == Head(entries)
         IN  Deserialize(Tail(entries), Put(vector, e.key, T(e.dt, e.sh, e.v)))

\* os.path.dirname(path), for a path held as the sequence of its components
Dirname(path) == SubSeq(path, 1, Len(path) - 1)

\* ------------------------------------------------------------------------
\* State
\* ------------------------------------------------------------------------

VARIABLES
    encs,   \* the encoder objects (nn.Module): each one's parameter map
    dicts,  \* the dict objects that hold task-vector mappings
    tvs,    \* the TaskVector objects: [vector |-> the dict self.vector refers to]
    hist,   \* the calls made on the TaskVector class, with arguments and outcome
    pc,     \* position of arithmetic.py's main flow ("session": not running)
    m,      \* the locals of the main flow
    disk    \* the checkpoint files and the saved task vector

vars == <<encs, dicts, tvs, hist, pc, m, disk>>

Heap == [encs |-> encs, dicts |-> dicts, tvs |-> tvs]

NoCall == [op |-> "none", a |-> 0, b |-> 0, coef |-> 0, dflt |-> FALSE, out |-> 0,
           err |-> "none", warn |-> {}]

\* the last call
last == IF hist = << >> THEN NoCall ELSE hist[Len(hist)]

\* the mapping of TaskVector t
VectorOf(h, t) == h.dicts[h.tvs[t].vector]

\* TaskVector(vector=d): self.vector = vector, the dict is shared with the caller
NewTaskVector(h, d) == [h EXCEPT !.tvs = Append(h.tvs, [vector |-> d])]

\* new_vector = {} ... filled with the mapping val
NewDict(h, val) == [h EXCEPT !.dicts = Append(h.dicts, val)]

Outcome(h, op, a, b, coef, out, r) ==
    [heap |-> h,
     call |-> [op |-> op, a |-> a, b |-> b, coef |-> coef, dflt |-> FALSE, out |-> out,
               err |-> r.err, warn |-> r.warn]]

\* TaskVector(pretrained_checkpoint=encs[p], finetuned_checkpoint=encs[f])
CallInit(h, p, f) ==
    LET r == TaskVectorInit(h.encs[p], h.encs[f])
    IN  IF r.err # "none" THEN Outcome(h, "init", p, f, 0, 0, r)
        ELSE Outcome(NewTaskVector(NewDict(h, r.val), Len(h.dicts) + 1),
                     "init", p, f, 0, Len(h.tvs) + 1, r)

\* (mutant) new_vector = self.vector: the sum is accumulated into the left operand
CallAdd_InPlace(h, a, b) ==
    LET r == TaskVectorAdd(VectorOf(h, a), VectorOf(h, b))
    IN  IF r.err # "none" THEN Outcome(h, "add", a, b, 0, 0, r)
        ELSE Outcome(NewTaskVector([h EXCEPT !.dicts[h.tvs[a].vector] = r.val],
                                   h.tvs[a].vector),
                     "add", a, b, 0, Len(h.tvs) + 1, r)

\* tvs[a] + tvs[b]
CallAdd(h, a, b) ==
    LET r == TaskVectorAdd(VectorOf(h, a), VectorOf(h, b))
    IN  IF r.err # "none" THEN Outcome(h, "add", a, b, 0, 0, r)
        ELSE Outcome(NewTaskVector(NewDict(h, r.val), Len(h.dicts) + 1),
                     "add", a, b, 0, Len(h.tvs) + 1, r)

\* (mutant) a placeholder is taken for the empty task vector: the result is a
\* new TaskVector over the keys of both, that is, over none
CallRAdd_FromEmpty(h, a, other) ==
    IF other <= 0
        THEN Outcome(NewTaskVector(NewDict(h, EmptyMap), Len(h.dicts) + 1),
                     "radd", a, other, 0, Len(h.tvs) + 1, Returned(EmptyMap, {}))
    ELSE [CallAdd(h, a, other) EXCEPT !.call.op = "radd"]

\* tvs[a].__radd__(other): other is a TaskVector (its index), the int 0 or
\* None (-1)
CallRAdd(h, a, other) ==
    IF other <= 0
        THEN Outcome(h, "radd", a, other, 0, a, Returned(EmptyMap, {}))
    ELSE [CallAdd(h, a, other) EXCEPT !.call.op = "radd"]

\* -tvs[a]
CallNeg(h, a) ==
    LET r == TaskVectorNeg(VectorOf(h, a))
    IN  Outcome(NewTaskVector(NewDict(h, r.val), Len(h.dicts) + 1),
                "neg", a, 0, 0, Len(h.tvs) + 1, r)

\* tvs[a].apply_to(encs[e], coef): the deep copy is a new encoder object
CallApplyTo(h, a, e, coef, cast) ==
    LET r == TaskVectorApplyTo(VectorOf(h, a), h.encs[e], coef, cast)
    IN  IF r.err # "none" THEN Outcome(h, "apply_to", a, e, coef, 0, r)
        ELSE Outcome([h EXCEPT !.encs = Append(h.encs, r.val)],
                     "apply_to", a, e, coef, Len(h.encs) + 1, r)

\* scaling_coef: float = 1.0
DefaultScalingCoef == One

\* tvs[a].apply_to(encs[e])
CallApplyToDefault(h, a, e, cast) ==
    [CallApplyTo(h, a, e, DefaultScalingCoef, cast) EXCEPT !.call.dflt = TRUE]

\* the paths a task vector is saved under: in a directory, and a bare file name
Paths == << <<"vectors", "tv.pt">>, <<"tv.pt">> >>

NoFile == [exists |-> FALSE, entries |-> << >>]

\* tvs[a].save_vector(Paths[p]) on the file system fs: os.makedirs raises for
\* the empty directory name, before anything is written
CallSave(h, fs, a, p) ==
    IF Dirname(Paths[p]) = << >>
        THEN [fs |-> fs, out |-> Outcome(h, "save", a, p, 0, 0, Raised("FileNotFoundError"))]
    ELSE [fs  |-> [fs EXCEPT !.dirs = @ \cup {Dirname(Paths[p])},
                             !.files[p] = [exists |-> TRUE,
                                           entries |-> Serialize(VectorOf(h, a))]],
          out |-> Outcome(h, "save", a, p, 0, 0, Returned(EmptyMap, {}))]

\* TaskVector.load_vector(Paths[p]): cls(vector=torch_load(path))
CallLoad(h, fs, p) ==
    IF ~fs.files[p].exists
        THEN Outcome(h, "load", 0, p, 0, 0, Raised("FileNotFoundError"))
    ELSE Outcome(NewTaskVector(NewDict(h, Deserialize(fs.files[p].entries, EmptyMap)),
                               Len(h.dicts) + 1),
                 "load", 0, p, 0, Len(h.tvs) + 1, Returned(EmptyMap, {}))

\* the state after a call
Done(o) ==
    /\ encs' = o.heap.encs
    /\ dicts' = o.heap.dicts
    /\ tvs' = o.heap.tvs
    /\ hist' = Append(hist, o.call)

\* ------------------------------------------------------------------------
\* Inputs
\* ------------------------------------------------------------------------

\* scaling coefficients: 0.0, 0.5, 1.0, 2.0 and -1.0
Coefs == {0, One \div 2, One, 2 * One, -One}

\* parameter maps with one float32 weight, of different values
ValueMaps == { [k \in {"ln.weight"} |-> T("float32", <<2>>, w)] : w \in {0, 1, 5 * One} }

\* parameter maps of float32 weights that differ in their keys; the maps of
\* object i hold the value i
KeyMaps(i) ==
    { [k \in ks |-> T("float32", IF k = "ln.weight" THEN <<2>> ELSE <<2, 2>>, i * One)] :
        ks \in (SUBSET {"ln.weight", "attn.Delta.U"}) \ {{}} }

Shapes == {<<1>>, <<2>>, <<3>>, <<3, 1>>, <<1, 3>>}

\* parameter maps whose weight has one of the shapes ss
ShapeMaps(i, ss) == { [k \in {"ln.weight"} |-> T("float32", sh, i * One)] : sh \in ss }

DTypes == {"int64", "int32", "uint8", "float32"}

\* a count that the floating-point format cannot hold: 2^Prec + 1 (16777217
\* for float32)
BigCount == (Pow2(Prec) + 1) * One

\* parameter maps with the keys ks, of value i, and a buffer that holds n in a
\* dtype of dts
DTypeMaps(i, n, ks, dts) ==
    { [k \in ks |-> IF k = "bn.steps" THEN T(dt, <<1>>, Conv(dt, n))
                                      ELSE T("float32", <<2>>, i * One)] :
        dt \in dts }

\* ------------------------------------------------------------------------
\* A session: calls on the TaskVector class, on two encoders and on a task
\* vector read with load_vector
\* ------------------------------------------------------------------------

InitCalls ==
    /\ \/ encs \in [1..2 -> ValueMaps] /\ dicts \in [1..1 -> ValueMaps]
       \/ \E e1 \in KeyMaps(1), e2 \in KeyMaps(3), d \in KeyMaps(2) :
              encs = <<e1, e2>> /\ dicts = <<d>>
       \/ \E e1 \in ShapeMaps(1, Shapes), e2 \in ShapeMaps(3, Shapes),
             d \in ShapeMaps(2, {<<1>>, <<3>>, <<1, 3>>}) :
              encs = <<e1, e2>> /\ dicts = <<d>>
       \/ \E e1 \in DTypeMaps(1, One, {"ln.weight", "bn.steps"}, DTypes),
             e2 \in DTypeMaps(3, BigCount, {"ln.weight", "bn.steps", "attn.Delta.D"},
                              DTypes)
                       \cup DTypeMaps(3, BigCount, {"ln.weight"}, {"float32"}),
             d \in DTypeMaps(2, 2 * One, {"ln.weight", "bn.steps"}, {"float32", "int32"}) :
              encs = <<e1, e2>> /\ dicts = <<d>>
    /\ tvs = <<[vector |-> 1]>>
    /\ hist = << >>
    /\ pc = "session"
    /\ m = [idle |-> TRUE]
    /\ disk = [idle |-> TRUE]

CanCall == pc = "session" /\ Len(hist) < MaxCalls

Construct ==
    /\ CanCall
    /\ \E p \in DOMAIN encs, f \in DOMAIN encs : Done(CallInit(Heap, p, f))
    /\ UNCHANGED <<pc, m, disk>>

Add ==
    /\ CanCall
    /\ \E a \in DOMAIN tvs, b \in DOMAIN tvs : Done(CallAdd(Heap, a, b))
    /\ UNCHANGED <<pc, m, disk>>

RAdd ==
    /\ CanCall
    /\ \E a \in DOMAIN tvs, other \in {-1, 0} \cup DOMAIN tvs :
           Done(CallRAdd(Heap, a, other))
    /\ UNCHANGED <<pc, m, disk>>

Neg ==
    /\ CanCall
    /\ \E a \in DOMAIN tvs : Done(CallNeg(Heap, a))
    /\ UNCHANGED <<pc, m, disk>>

ApplyTo ==
    /\ CanCall
    /\ \E a \in DOMAIN tvs, e \in DOMAIN encs, coef \in Coefs, cast \in Casts :
           Done(CallApplyTo(Heap, a, e, coef, cast))
    /\ UNCHANGED <<pc, m, disk>>

ApplyToDefault ==
    /\ CanCall
    /\ \E a \in DOMAIN tvs, e \in DOMAIN encs, cast \in Casts :
           Done(CallApplyToDefault(Heap, a, e, cast))
    /\ UNCHANGED <<pc, m, disk>>

NextCalls == Construct \/ Add \/ RAdd \/ Neg \/ ApplyTo \/ ApplyToDefault

SpecCalls == InitCalls /\ [][NextCalls]_vars

\* ------------------------------------------------------------------------
\* A computation in the algebra: additions, negations, save_vector and
\* load_vector on two task vectors read with load_vector
\* ------------------------------------------------------------------------

InitAlgebra ==
    /\ \/ dicts \in [1..2 -> ValueMaps]
       \/ \E d1 \in KeyMaps(1), d2 \in KeyMaps(2) : dicts = <<d1, d2>>
       \/ \E d1 \in ShapeMaps(1, {<<1>>, <<3>>, <<3, 1>>}),
             d2 \in ShapeMaps(3, {<<2>>, <<3>>, <<1, 3>>}) : dicts = <<d1, d2>>
       \/ \E d1 \in DTypeMaps(1, One, {"ln.weight", "bn.steps"}, {"float32", "int32"}),
             d2 \in DTypeMaps(2, BigCount, {"ln.weight", "bn.steps"}, {"float32", "int32"}) :
              dicts = <<d1, d2>>
    /\ encs = << >>
    /\ tvs = <<[vector |-> 1], [vector |-> 2]>>
    /\ hist = << >>
    /\ pc = "algebra"
    /\ m = [idle |-> TRUE]
    /\ disk = [dirs |-> {}, files |-> [p \in DOMAIN Paths |-> NoFile]]

CanCompute == pc = "algebra" /\ Len(hist) < MaxAlgebraCalls

AddVectors ==
    /\ CanCompute
    /\ \E a \in DOMAIN tvs, b \in DOMAIN tvs : Done(CallAdd(Heap, a, b))
    /\ UNCHANGED <<pc, m, disk>>

NegVector ==
    /\ CanCompute
    /\ \E a \in DOMAIN tvs : Done(CallNeg(Heap, a))
    /\ UNCHANGED <<pc, m, disk>>

SaveVector ==
    /\ CanCompute
    /\ \E a \in DOMAIN tvs, p \in DOMAIN Paths :
           LET o == CallSave(Heap, disk, a, p)
           IN  Done(o.out) /\ disk' = o.fs
    /\ UNCHANGED <<pc, m>>

LoadVector ==
    /\ CanCompute
    /\ \E p \in DOMAIN Paths : Done(CallLoad(Heap, disk, p))
    /\ UNCHANGED <<pc, m, disk>>

NextAlgebra == AddVectors \/ NegVector \/ SaveVector \/ LoadVector

SpecAlgebra == InitAlgebra /\ [][NextAlgebra]_vars

\* ------------------------------------------------------------------------
\* arithmetic.py, the main flow
\* ------------------------------------------------------------------------

\* args.lamb when no coefficient is given: the sweep from 0.0 to 2.0, here in
\* steps of 0.5
DefaultLamb == <<0, One \div 2, One, (3 * One) \div 2, 2 * One>>

\* the parameters of a freshly built encoder and of the zero-shot checkpoint
ZeroshotMaps ==
    { [k \in ks |-> IF k = "ln.weight" THEN T("float32", <<2>>, w)
                                       ELSE T("float32", <<2, 2>>, One)] :
        ks \in {{"ln.weight"}, {"ln.weight", "attn.Delta.U"}}, w \in {1, One} }

\* the parameters of a finetuned checkpoint
FinetunedMaps ==
    { [k \in ks |-> IF k = "ln.weight" THEN T("float32", <<2>>, w)
                                       ELSE T("float32", <<2, 2>>, u)] :
        ks \in {{"ln.weight"}, {"ln.weight", "attn.Delta.U"}},
        w \in {One, 5 * One}, u \in {One, 3 * One} }

Init ==
    /\ encs = << >>
    /\ dicts = << >>
    /\ tvs = << >>
    /\ hist = << >>
    /\ pc = "load_base"
    /\ \E lamb \in {<<One>>, <<-One>>, DefaultLamb} :
           m = [base |-> 0, pretrained |-> 0, finetuned |-> << >>, vectors |-> << >>,
                acc |-> 0, summed |-> 0, task_vector |-> 0, lamb |-> lamb, info |-> << >>]
    /\ \E z \in ZeroshotMaps, t \in ZeroshotMaps,
          f \in UNION {[1..n -> FinetunedMaps] : n \in 1..MaxDatasets} :
           disk = [zeroshot |-> z, transfer |-> t, finetuned |-> f,
                   task_vector |-> [saved |-> FALSE, vector |-> EmptyMap]]

\* lines 112-126: base_pretrained_encoder = ImageEncoder(args), its "Delta"
\* parameters set to zero
LoadBase ==
    /\ pc = "load_base"
    /\ encs' = Append(encs, ZeroDelta(disk.zeroshot))
    /\ m' = [m EXCEPT !.base = Len(encs) + 1]
    /\ pc' = "load_pretrained"
    /\ UNCHANGED <<dicts, tvs, hist, disk>>

\* lines 129-141: pretrained_encoder = ImageEncoder.load(...), its "Delta"
\* parameters set to zero
LoadPretrained ==
    /\ pc = "load_pretrained"
    /\ encs' = Append(encs, ZeroDelta(disk.transfer))
    /\ m' = [m EXCEPT !.pretrained = Len(encs) + 1]
    /\ pc' = "load_finetuned"
    /\ UNCHANGED <<dicts, tvs, hist, disk>>

\* lines 142-155: finetuned_encoders = [ImageEncoder.load(...) for dataset_name ...]
LoadFinetuned ==
    /\ pc = "load_finetuned"
    /\ encs' = encs \o disk.finetuned
    /\ m' = [m EXCEPT !.finetuned = [i \in 1..Len(disk.finetuned) |-> Len(encs) + i]]
    /\ pc' = "build"
    /\ UNCHANGED <<dicts, tvs, hist, disk>>

\* lines 157-161: the next TaskVector of the list that sum() is given
BuildVector ==
    /\ pc = "build"
    /\ LET i == Len(m.vectors) + 1
           o == CallInit(Heap, m.pretrained, m.finetuned[i])
       IN  /\ Done(o)
           /\ IF o.call.err # "none"
                  THEN pc' = "crashed" /\ m' = m
              ELSE /\ m' = [m EXCEPT !.vectors = Append(@, o.call.out)]
                   /\ pc' = IF i = Len(m.finetuned) THEN "sum" ELSE "build"
    /\ UNCHANGED disk

\* line 156: one step of sum(): result = result + item, from the int 0
SumStep ==
    /\ pc = "sum"
    /\ LET v == m.vectors[m.summed + 1]
           o == IF m.summed = 0 THEN CallRAdd(Heap, v, m.acc) ELSE CallAdd(Heap, m.acc, v)
           end == m.summed + 1 = Len(m.vectors)
       IN  /\ Done(o)
           /\ IF o.call.err # "none"
                  THEN pc' = "crashed" /\ m' = m
              ELSE /\ m' = [m EXCEPT !.acc = o.call.out, !.summed = @ + 1,
                                     !.task_vector = IF end THEN o.call.out ELSE @]
                   /\ pc' = IF end THEN "rescale" ELSE "sum"
    /\ UNCHANGED disk

\* lines 163-165: task_vector.vector[key] = task_vector.vector[key] / len(...)
Rescale ==
    /\ pc = "rescale"
    /\ dicts' = [dicts EXCEPT ![tvs[m.task_vector].vector] =
                     RescaleDeltaU(@, Len(m.finetuned))]
    /\ pc' = "save"
    /\ UNCHANGED <<encs, tvs, hist, m, disk>>

\* lines 166-175: task_vector.save_vector(...)
Save ==
    /\ pc = "save"
    /\ disk' = [disk EXCEPT !.task_vector =
                    [saved |-> TRUE, vector |-> Serialize(VectorOf(Heap, m.task_vector))]]
    /\ pc' = "eval"
    /\ UNCHANGED <<encs, dicts, tvs, hist, m>>

\* lines 24-59: one turn of eval_task_vectors' loop over args.lamb
Evaluate ==
    /\ pc = "eval"
    /\ m.lamb # << >>
    /\ \E cast \in Casts :
           LET o == CallApplyTo(Heap, m.task_vector, m.base, Head(m.lamb), cast)
           IN  /\ Done(o)
               /\ IF o.call.err # "none"
                      THEN pc' = "crashed" /\ m' = m
                  ELSE /\ m' = [m EXCEPT !.lamb = Tail(@), !.info = Append(@, o.call.out)]
                       /\ pc' = "eval"
    /\ UNCHANGED disk

\* lines 61, 178: return info; plot_coef_vs_average_accuracy(info, args)
Plot ==
    /\ pc = "eval"
    /\ m.lamb = << >>
    /\ pc' = "done"
    /\ UNCHANGED <<encs, dicts, tvs, hist, m, disk>>

Next ==
    \/ LoadBase \/ LoadPretrained \/ LoadFinetuned \/ BuildVector \/ SumStep
    \/ Rescale \/ Save \/ Evaluate \/ Plot

Spec == Init /\ [][Next]_vars

\* ------------------------------------------------------------------------
\* arithmetic.py, the path of the saved task vector in two runs
\* ------------------------------------------------------------------------

\* the arguments the path is built from, and the values each takes here
ArgValues ==
    [model_architecture     |-> {"ViT-B-32", "ViT-B-16"},
     pretrained_to_transfer |-> {"openai", "laion400m"},
     pretrained             |-> {"openai", "datacomp"},
     finetuning_type        |-> {"lora", "standard"},
     lr                     |-> {"1e-05", "0.0001"},
     wd                     |-> {"0.0", "0.1"},
     ls                     |-> {"0.0", "0.1"},
     rank                   |-> {4, 8},
     alpha                  |-> {16, 32},
     batch_size             |-> {32, 33, 64},
     grad_accum_steps       |-> {1, 2},
     seed                   |-> {0, 1},
     eval_datasets          |-> {<<"DTD">>, <<"DTD", "Cars">>}]

ArgNames == DOMAIN ArgValues

DefaultArgs ==
    [model_architecture |-> "ViT-B-32", pretrained_to_transfer |-> "openai",
     pretrained |-> "datacomp", finetuning_type |-> "lora", lr |-> "1e-05",
     wd |-> "0.1", ls |-> "0.0", rank |-> 4, alpha |-> 16, batch_size |-> 64,
     grad_accum_steps |-> 1, seed |-> 0, eval_datasets |-> <<"DTD">>]

\* lines 92-96: rank and alpha are reset unless the mode is "lora", and the
\* batch size is divided by the gradient-accumulation steps
NormaliseArgs(args) ==
    LET a == IF args.finetuning_type # "lora"
                 THEN [args EXCEPT !.rank = 0, !.alpha = 0]
             ELSE args
    IN  [a EXCEPT !.batch_size = a.batch_size \div a.grad_accum_steps]

\* lines 166-175: the components os.path.join puts together; an f-string is
\* held as the sequence of its literal and formatted parts
TaskVectorPath(args) ==
    << "model_root",
       args.model_architecture,
       args.pretrained_to_transfer,
       args.finetuning_type,
       <<"lr_", args.lr, "_wd_", args.wd, "_ls_", args.ls>>,
       <<"rank_", args.rank, "_alpha_", args.alpha>>,
       <<"bs_", args.batch_size, "_seed_", args.seed>>,
       <<"task_vector_for_", args.eval_datasets, ".pt">> >>

NewRun(args) == [given |-> args, args |-> args, stage |-> "parsed", path |-> << >>]

\* two runs: the first differs from the defaults in the mode, the batch size
\* and the accumulation steps, the second from the first in one or two arguments
InitPaths ==
    /\ \E ft \in ArgValues.finetuning_type, bs \in ArgValues.batch_size,
          ga \in ArgValues.grad_accum_steps :
           LET first == [DefaultArgs EXCEPT !.finetuning_type = ft, !.batch_size = bs,
                                            !.grad_accum_steps = ga]
           IN  \E f \in ArgNames, g \in ArgNames :
                   \E x \in ArgValues[f], y \in ArgValues[g] :
                       LET second == [[first EXCEPT ![f] = x] EXCEPT ![g] = y]
                       IN  /\ second # first
                           /\ m = [runs |-> <<NewRun(first), NewRun(second)>>]
    /\ pc = "paths"
    /\ encs = << >> /\ dicts = << >> /\ tvs = << >> /\ hist = << >>
    /\ disk = [idle |-> TRUE]

\* lines 89-96 of run i
ParseArgs ==
    /\ pc = "paths"
    /\ \E i \in DOMAIN m.runs :
           /\ m.runs[i].stage = "parsed"
           /\ m' = [m EXCEPT !.runs[i].args = NormaliseArgs(@),
                             !.runs[i].stage = "normalised"]
    /\ UNCHANGED <<encs, dicts, tvs, hist, pc, disk>>

\* lines 166-175 of run i: the path handed to save_vector
BuildPath ==
    /\ pc = "paths"
    /\ \E i \in DOMAIN m.runs :
           /\ m.runs[i].stage = "normalised"
           /\ m' = [m EXCEPT !.runs[i].path = TaskVectorPath(m.runs[i].args),
                             !.runs[i].stage = "saved"]
    /\ UNCHANGED <<encs, dicts, tvs, hist, pc, disk>>

NextPaths == ParseArgs \/ BuildPath

SpecPaths == InitPaths /\ [][NextPaths]_vars

\* ------------------------------------------------------------------------
\* delta.py: matrices, class LoRALayer, class Linear
\* ------------------------------------------------------------------------

\* A matrix is the sequence of its rows, a vector the sequence of its
\* elements; the elements are floating-point values as above.

Zeros(rows, cols) == [i \in 1..rows |-> [j \in 1..cols |-> 0]]

Eye(n) == [i \in 1..n |-> [j \in 1..n |-> IF i = j THEN One ELSE 0]]

Rows(M) == Len(M)

Cols(M) == Len(M[1])

Transpose(M) == [j \in 1..Cols(M) |-> [i \in 1..Rows(M) |-> M[i][j]]]

\* the rounded product of two elements
Mul(a, b) == RoundRat(a * b, One)

\* the inner product of the first n elements of x and y, accumulated in order
RECURSIVE Dot(_, _, _)
Dot(x, y, n) == IF n = 0 THEN 0 ELSE Fl(Dot(x, y, n - 1) + Mul(x[n], y[n]))

\* X @ Y: the inner dimensions must agree
MatMul(X, Y) ==
    IF Cols(X) # Rows(Y) THEN Raised("RuntimeError")
    ELSE Returned([i \in 1..Rows(X) |->
                      [j \in 1..Cols(Y) |-> Dot(X[i], Transpose(Y)[j], Cols(X))]], {})

\* F.linear(input, weight) is input @ weight.T: the last dimension of the
\* input must be the second dimension of the weight
FLinear(input, weight) ==
    IF Cols(input) # Cols(weight) THEN Raised("RuntimeError")
    ELSE Returned([i \in 1..Rows(input) |->
                      [j \in 1..Rows(weight) |-> Dot(input[i], weight[j], Cols(input))]], {})

\* matrix + vector with broadcasting over the last dimension
AddVector(M, b) ==
    IF ~(Cols(M) = Len(b) \/ Cols(M) = 1 \/ Len(b) = 1) THEN Raised("RuntimeError")
    ELSE Returned([i \in 1..Rows(M) |->
                      [j \in 1..Max(Cols(M), Len(b)) |->
                          Fl(M[i][IF Cols(M) = 1 THEN 1 ELSE j]
                             + b[IF Len(b) = 1 THEN 1 ELSE j])]], {})

\* matrix + matrix of the same shape
AddMatrix(X, Y) == [i \in 1..Rows(X) |-> [j \in 1..Cols(X) |-> Fl(X[i][j] + Y[i][j])]]

\* tensor * alpha / r with the integers alpha and r
Scale(M, alpha, r) ==
    [i \in 1..Rows(M) |-> [j \in 1..Cols(M) |-> RoundRat(Fl(M[i][j] * alpha), r)]]

\* an attribute the object does not have
NoParam == << >>

\* the values nn.init.kaiming_uniform_ draws here
KaimingValues == {-(One \div 2), One \div 2}

\* the matrices nn.init.kaiming_uniform_ can leave in a (rows, cols) parameter
Kaiming(rows, cols) == [1..rows -> [1..cols -> KaimingValues]]

\* reset_parameters with the matrix a drawn for A
ResetParameters(self, a) ==
    IF self.r > 0
        THEN [self EXCEPT !.A = a, !.B = Zeros(Rows(self.B), Cols(self.B))]
    ELSE IF self.bias
        THEN [self EXCEPT !.D = Zeros(Rows(self.D), Cols(self.D)),
                          !.b = [j \in DOMAIN self.b |-> 0]]
    ELSE [self EXCEPT !.D = Zeros(Rows(self.D), Cols(self.D))]

\* LoRALayer(in_features, out_features, r, alpha, bias) with the matrix a
\* drawn for A
LoRALayerInit(in_features, out_features, r, alpha, bias, a) ==
    LET fields == [in_features |-> in_features, out_features |-> out_features,
                   r |-> r, alpha |-> alpha, bias |-> bias,
                   A |-> NoParam, B |-> NoParam, D |-> NoParam, b |-> NoParam,
                   U |-> NoParam]
        params == IF r > 0
                      THEN ResetParameters([fields EXCEPT !.A = Zeros(r, in_features),
                                                          !.B = Zeros(out_features, r)], a)
                  ELSE IF bias
                      THEN [fields EXCEPT !.D = Zeros(in_features, out_features),
                                          !.b = [j \in 1..out_features |-> 0]]
                  ELSE [fields EXCEPT !.D = Zeros(in_features, out_features)]
    IN  [params EXCEPT !.U = Eye(in_features)]

ZeroParameters(self) ==
    IF self.r > 0
        THEN [self EXCEPT !.A = Zeros(Rows(self.A), Cols(self.A)),
                          !.B = Zeros(Rows(self.B), Cols(self.B))]
    ELSE IF self.bias
        THEN [self EXCEPT !.D = Zeros(Rows(self.D), Cols(self.D)),
                          !.b = [j \in DOMAIN self.b |-> 0]]
    ELSE [self EXCEPT !.D = Zeros(Rows(self.D), Cols(self.D))]

RECURSIVE Orderings(_)
Orderings(n) ==
    IF n = 0 THEN {<< >>}
    ELSE {[i \in 1..n |-> IF i = k THEN n ELSE IF i < k THEN p[i] ELSE p[i - 1]] :
              p \in Orderings(n - 1), k \in 1..n}

\* torch.linalg.qr returns an orthogonal Q; the orthogonal matrices the grid
\* holds exactly are the permutation matrices with signed entries
QFactors(n) ==
    {[i \in 1..n |-> [j \in 1..n |-> IF p[i] = j THEN s[i] * One ELSE 0]] :
         p \in Orderings(n), s \in [1..n -> {-1, 1}]}

\* randomize, with the Q factor q of the matrix drawn for U
Randomize(self, q) == [self EXCEPT !.U = q]

\* the three F.linear calls of forward on the weight W (B @ A, or D)
Chain(self, inputs, W) ==
    LET xU == FLinear(inputs, self.U)
    IN  IF xU.err # "none" THEN xU
        ELSE LET xUW == FLinear(xU.val, W)
             IN  IF xUW.err # "none" THEN xUW
                 ELSE FLinear(xUW.val, Transpose(self.U))

Forward(self, inputs) ==
    IF self.r > 0
        THEN LET BA == MatMul(self.B, self.A)
             IN  IF BA.err # "none" THEN BA
                 ELSE LET xUWUh == Chain(self, inputs, BA.val)
                      IN  IF xUWUh.err # "none" THEN xUWUh
                          ELSE Returned(Scale(xUWUh.val, self.alpha, self.r), {})
    ELSE LET xUWUh == Chain(self, inputs, self.D)
         IN  IF xUWUh.err # "none" THEN xUWUh
             ELSE IF self.bias THEN AddVector(xUWUh.val, self.b)
             ELSE xUWUh

\* Linear(in_features, out_features, r, alpha, weight, bias): bias is a vector
\* or NoParam (None); a0 and a are the matrices drawn for Delta.A by the
\* constructor of Delta and by the reset_parameters that follows it
LinearInit(in_features, out_features, r, alpha, weight, bias, a0, a) ==
    IF bias = NoParam THEN Raised("AttributeError")
    ELSE Returned([Pre   |-> [weight |-> weight, bias |-> bias],
                   Delta |-> ResetParameters(
                                LoRALayerInit(in_features, out_features, r, alpha, TRUE, a0),
                                a)], {})

\* nn.Linear.forward of the base layer
PreForward(pre, inputs) ==
    LET xW == FLinear(inputs, pre.weight)
    IN  IF xW.err # "none" THEN xW ELSE AddVector(xW.val, pre.bias)

LinearForward(self, inputs) ==
    LET base  == PreForward(self.Pre, inputs)
        delta == Forward(self.Delta, inputs)
    IN  IF base.err # "none" THEN base
        ELSE IF delta.err # "none" THEN delta
        ELSE Returned(AddMatrix(base.val, delta.val), {})

\* ------------------------------------------------------------------------
\* delta.py: one layer, from its construction through the calls made on it
\* ------------------------------------------------------------------------

Features == 1..MaxFeatures

Ranks == 0..MaxRank

Alphas == {0, 2}

\* the elements of the input batches
InputValues == {-One, 0, One}

\* the input batches of shape (batch, n)
Batches(n) == UNION {[1..b -> [1..n -> InputValues]] : b \in 1..MaxBatch}

\* the values an optimizer step leaves in a parameter
StepValues == {-One, One}

\* the parameters the layer has
ParamsOf(self) == {n \in {"A", "B", "D", "b", "U"} : self[n] # NoParam}

\* the matrix M with every element set to v
Filled(M, v) == [i \in DOMAIN M |-> [j \in DOMAIN M[i] |-> v]]

\* parameter n of the layer with every element set to v
FilledParam(self, n, v) ==
    IF n = "b" THEN [j \in DOMAIN self.b |-> v] ELSE Filled(self[n], v)

\* the result of a call that returns nothing
NotCalled == Raised("not called")

LayerCall(op, batch, out, base) == [op |-> op, batch |-> batch, out |-> out, base |-> base]

\* the arguments of the constructor; for a Linear, bias tells whether a bias
\* tensor is passed
InitLayer ==
    /\ \E kind \in {"LoRALayer", "Linear"}, i \in Features, o \in Features,
          r \in Ranks, alpha \in Alphas, bias \in BOOLEAN :
           m = [args  |-> [kind |-> kind, in_features |-> i, out_features |-> o,
                           r |-> r, alpha |-> alpha, bias |-> bias],
                stage |-> "args", err |-> "none", layer |-> NoParam, Pre |-> NoParam]
    /\ pc = "layer"
    /\ hist = << >>
    /\ encs = << >> /\ dicts = << >> /\ tvs = << >>
    /\ disk = [idle |-> TRUE]

NewLoRALayer ==
    /\ pc = "layer" /\ m.stage = "args" /\ m.args.kind = "LoRALayer"
    /\ \E a \in Kaiming(m.args.r, m.args.in_features) :
           m' = [m EXCEPT !.stage = "built",
                          !.layer = LoRALayerInit(m.args.in_features, m.args.out_features,
                                                  m.args.r, m.args.alpha, m.args.bias, a)]
    /\ UNCHANGED <<encs, dicts, tvs, hist, pc, disk>>

NewLinear ==
    /\ pc = "layer" /\ m.stage = "args" /\ m.args.kind = "Linear"
    /\ \E a0 \in Kaiming(m.args.r, m.args.in_features),
          a \in Kaiming(m.args.r, m.args.in_features),
          w \in StepValues :
           LET weight == Filled(Zeros(m.args.out_features, m.args.in_features), w)
               bias   == IF m.args.bias THEN [j \in 1..m.args.out_features |-> One]
                         ELSE NoParam
               made   == LinearInit(m.args.in_features, m.args.out_features, m.args.r,
                                    m.args.alpha, weight, bias, a0, a)
           IN  m' = IF made.err = "none"
                        THEN [m EXCEPT !.stage = "built", !.layer = made.val.Delta,
                                       !.Pre = made.val.Pre]
                    ELSE [m EXCEPT !.stage = "failed", !.err = made.err]
    /\ UNCHANGED <<encs, dicts, tvs, hist, pc, disk>>

CanCallLayer == pc = "layer" /\ m.stage = "built" /\ Len(hist) < MaxLayerCalls

CallResetParameters ==
    /\ CanCallLayer
    /\ \E a \in Kaiming(m.layer.r, m.layer.in_features) :
           m' = [m EXCEPT !.layer = ResetParameters(@, a)]
    /\ hist' = Append(hist, LayerCall("reset_parameters", 0, NotCalled, NotCalled))
    /\ UNCHANGED <<encs, dicts, tvs, pc, disk>>

CallZeroParameters ==
    /\ CanCallLayer
    /\ m' = [m EXCEPT !.layer = ZeroParameters(@)]
    /\ hist' = Append(hist, LayerCall("zero_parameters", 0, NotCalled, NotCalled))
    /\ UNCHANGED <<encs, dicts, tvs, pc, disk>>

CallRandomize ==
    /\ CanCallLayer
    /\ \E q \in QFactors(m.layer.in_features) :
           m' = [m EXCEPT !.layer = Randomize(@, q)]
    /\ hist' = Append(hist, LayerCall("randomize", 0, NotCalled, NotCalled))
    /\ UNCHANGED <<encs, dicts, tvs, pc, disk>>

\* orthogonal_finetune.py, optimizer.step(): a parameter of the layer moves
OptimizerStep ==
    /\ CanCallLayer
    /\ \E n \in ParamsOf(m.layer), v \in StepValues :
           m' = [m EXCEPT !.layer[n] = FilledParam(m.layer, n, v)]
    /\ hist' = Append(hist, LayerCall("step", 0, NotCalled, NotCalled))
    /\ UNCHANGED <<encs, dicts, tvs, pc, disk>>

CallForward ==
    /\ CanCallLayer
    /\ \E x \in Batches(m.layer.in_features) :
           hist' = Append(hist, LayerCall("forward", Rows(x), Forward(m.layer, x),
                                          NotCalled))
    /\ UNCHANGED <<encs, dicts, tvs, pc, m, disk>>

CallLinearForward ==
    /\ CanCallLayer /\ m.args.kind = "Linear"
    /\ \E x \in Batches(m.layer.in_features) :
           hist' = Append(hist, LayerCall("Linear.forward", Rows(x),
                                          LinearForward([Pre |-> m.Pre, Delta |-> m.layer], x),
                                          PreForward(m.Pre, x)))
    /\ UNCHANGED <<encs, dicts, tvs, pc, m, disk>>

NextLayer ==
    \/ NewLoRALayer \/ NewLinear \/ CallResetParameters \/ CallZeroParameters
    \/ CallRandomize \/ OptimizerStep \/ CallForward \/ CallLinearForward

SpecLayer == InitLayer /\ [][NextLayer]_vars

\* ------------------------------------------------------------------------
\* orthogonal_finetune.py: class OrthLoss and the training run of one worker
\* ------------------------------------------------------------------------

\* the largest q in lo..hi with q * q <= n, by bisection
RECURSIVE ISqrt(_, _, _)
ISqrt(n, lo, hi) ==
    IF lo >= hi THEN lo
    ELSE LET mid == (lo + hi + 1) \div 2
         IN  IF mid * mid <= n THEN ISqrt(n, mid, hi) ELSE ISqrt(n, lo, mid - 1)

\* the rounded square root of a non-negative element
Sqrt(x) ==
    LET s == Prec + 2
        n == x * One * Pow2(2 * s)
    IN  RoundRat(ISqrt(n, 0, Pow2(15)), Pow2(s))

\* UhU - eye
UhUMinusEye(U) ==
    LET UhU == MatMul(Transpose(U), U).val
    IN  [i \in 1..Rows(UhU) |->
            [j \in 1..Cols(UhU) |-> Fl(UhU[i][j] - Eye(Rows(UhU))[i][j])]]

RECURSIVE SumOfSquares(_, _, _)
SumOfSquares(M, i, j) ==
    IF i = 0 THEN 0
    ELSE IF j = 0 THEN SumOfSquares(M, i - 1, Cols(M))
    ELSE Fl(SumOfSquares(M, i, j - 1) + Mul(M[i][j], M[i][j]))

RECURSIVE MaxAbsDiagonal(_, _)
MaxAbsDiagonal(M, i) == IF i = 0 THEN 0 ELSE Max(MaxAbsDiagonal(M, i - 1), Abs(M[i][i]))

\* torch.linalg.matrix_norm(M, ord): the Frobenius norm, and the 2-norm of a
\* diagonal matrix (the rotation matrices of this model are diagonal)
MatrixNorm(M, ord) ==
    IF ord = "fro" THEN Sqrt(SumOfSquares(M, Rows(M), Cols(M)))
    ELSE MaxAbsDiagonal(M, Rows(M))

\* sum(orth_loss), from the int 0
RECURSIVE SumList(_, _)
SumList(xs, n) == IF n = 0 THEN 0 ELSE Fl(SumList(xs, n - 1) + xs[n])

\* the loop of OrthLoss.forward over the rotation matrices Us, from matrix i on
RECURSIVE OrthLossLoop(_, _, _, _)
OrthLossLoop(adjust_type, Us, i, orth_loss) ==
    IF i > Len(Us) THEN Returned(orth_loss, {})
    ELSE IF adjust_type \notin {"fro", "spec"} THEN Raised("ValueError")
    ELSE OrthLossLoop(adjust_type, Us, i + 1,
                      Append(orth_loss, MatrixNorm(UhUMinusEye(Us[i]), adjust_type)))

\* (mutant) an empty list of norms gives the loss 0
OrthLossForward_ZeroWhenEmpty(adjust_type, Us) ==
    LET loop == OrthLossLoop(adjust_type, Us, 1, << >>)
    IN  IF loop.err # "none" THEN loop
        ELSE IF Len(loop.val) = 0 THEN Returned(0, {})
        ELSE Returned(RoundRat(SumList(loop.val, Len(loop.val)), Len(loop.val)), {})

\* OrthLoss.forward on an encoder whose rotation matrices are Us
OrthLossForward(adjust_type, Us) ==
    LET loop == OrthLossLoop(adjust_type, Us, 1, << >>)
    IN  IF loop.err # "none" THEN loop
        ELSE IF Len(loop.val) = 0 THEN Raised("ZeroDivisionError")
        ELSE Returned(RoundRat(SumList(loop.val, Len(loop.val)), Len(loop.val)), {})

\* the projections of one attention block that hold a rotation matrix
Embeds == <<"q", "k", "v", "out">>

\* the rotation matrices of an encoder of the given number of layers, all U
RotationsOf(layers, U) == [n \in 1..(layers * Len(Embeds)) |-> U]

\* (mutant) i is not divided by the accumulation steps
TrainStep_Undivided(i, epoch, train_num_batches, grad_accum_steps) ==
    i + (epoch * train_num_batches) \div grad_accum_steps

\* lines 205 and 344: train_step
TrainStep(i, epoch, train_num_batches, grad_accum_steps) ==
    (i \div grad_accum_steps) + (epoch * train_num_batches) \div grad_accum_steps

\* lines 191 and 320: the number of steps the scheduler is built for
TotalSteps(epochs, train_num_batches, grad_accum_steps) ==
    (epochs * train_num_batches) \div grad_accum_steps

\* lines 352-356: train_ce_loss is assigned anew for every sample of the
\* batch; what the loss is computed from after the loop
MixLoss(batch) == {[sample |-> j, head |-> batch[j]] : j \in {Len(batch)}}

\* line 213: the loss of the whole batch under the head of the dataset
CycleLoss(batch, dataset) == {[sample |-> j, head |-> dataset] : j \in DOMAIN batch}

\* (mutant) the check of the trainable parameters is left out
AssertParams_Skipped(params) == "none"

\* line 130: assert len(params) > 0
AssertParams(params) == IF params > 0 THEN "none" ELSE "AssertionError"

\* DistributedDataParallel all-reduces the gradients in every backward pass
\* whose forward pass ran outside no_sync(); the loops never enter no_sync()
SyncsOnBackward(i, grad_accum_steps) == TRUE

\* the rotation matrices training moves between: the identity and two
\* diagonal matrices off it
TrainedUs ==
    {Eye(2),
     [i \in 1..2 |-> [j \in 1..2 |-> IF i = j THEN One + One \div 2 ELSE 0]],
     [i \in 1..2 |-> [j \in 1..2 |-> IF i # j THEN 0 ELSE IF i = 1 THEN One ELSE 2 * One]]}

\* the loops over the datasets inside one epoch: one per dataset in cycle
\* mode, a single one over the mixed dataset in mix mode
LoopsPerEpoch(cfg) == IF cfg.dataset_type = "cycle" THEN cfg.datasets ELSE 1

\* the batches the loader can yield: 1..MaxBatch samples, each with the index
\* of its dataset; in cycle mode all of the dataset of the loop
BatchesOf(cfg, dataset) ==
    UNION {[1..b -> IF cfg.dataset_type = "cycle" THEN {dataset} ELSE 1..cfg.datasets] :
               b \in 1..MaxBatch}

InitTrain ==
    /\ \E dataset_type \in {"cycle", "mix"}, adjust_type \in {"fro", "spec", "nuc"},
          layers \in 0..MaxLayers, params \in {0, 1},
          grad_accum_steps \in 1..MaxAccum, epochs \in 1..MaxEpochs,
          datasets \in 1..MaxDatasets, train_num_batches \in 1..MaxBatches :
           m = [cfg |-> [dataset_type |-> dataset_type, adjust_type |-> adjust_type,
                         layers |-> layers, params |-> params,
                         grad_accum_steps |-> grad_accum_steps, epochs |-> epochs,
                         datasets |-> datasets, train_num_batches |-> train_num_batches],
                U |-> Eye(2), optimizer |-> FALSE, orth_loss_fn |-> FALSE, data |-> FALSE,
                epoch |-> 0, dataset |-> 1, i |-> 0, train_step |-> 0,
                batch |-> << >>, ce |-> {}, reg |-> NotCalled,
                grads |-> 0, syncs |-> 0, backwards |-> 0, carried |-> {},
                err |-> "none"]
    /\ pc = "assert"
    /\ hist = << >>
    /\ encs = << >> /\ dicts = << >> /\ tvs = << >>
    /\ disk = [idle |-> TRUE]

\* lines 129-130: the list of the trainable parameters and the assertion
CheckParams ==
    /\ pc = "assert"
    /\ LET e == AssertParams(m.cfg.params)
       IN  IF e = "none" THEN pc' = "optimizer" /\ m' = m
           ELSE pc' = "failed" /\ m' = [m EXCEPT !.err = e]
    /\ UNCHANGED <<encs, dicts, tvs, hist, disk>>

\* lines 132-143: the optimizer, the loss functions; OrthLoss.__init__ stores
\* adjust_type and checks nothing
CreateOptimizer ==
    /\ pc = "optimizer"
    /\ m' = [m EXCEPT !.optimizer = TRUE, !.orth_loss_fn = TRUE]
    /\ pc' = "data"
    /\ UNCHANGED <<encs, dicts, tvs, hist, disk>>

\* lines 145-163 and 296-331: the datasets, the loaders, the scheduler and
\* the DistributedDataParallel wrapper
LoadData ==
    /\ pc = "data"
    /\ m' = [m EXCEPT !.data = TRUE]
    /\ pc' = "loop"
    /\ UNCHANGED <<encs, dicts, tvs, hist, disk>>

\* lines 203-208 and 342-348: the loader yields batch i
NextBatch ==
    /\ pc = "loop" /\ m.i < m.cfg.train_num_batches
    /\ \E batch \in BatchesOf(m.cfg, m.dataset) :
           m' = [m EXCEPT !.batch = batch,
                          !.train_step = TrainStep(m.i, m.epoch, m.cfg.train_num_batches,
                                                   m.cfg.grad_accum_steps)]
    /\ pc' = "forward"
    /\ UNCHANGED <<encs, dicts, tvs, hist, disk>>

\* lines 210-216 and 350-360: the logits, the cross-entropy loss and the
\* regularizer, which may raise
ComputeLoss ==
    /\ pc = "forward"
    /\ LET ce  == IF m.cfg.dataset_type = "cycle" THEN CycleLoss(m.batch, m.dataset)
                  ELSE MixLoss(m.batch)
           reg == OrthLossForward(m.cfg.adjust_type, RotationsOf(m.cfg.layers, m.U))
       IN  IF reg.err # "none"
               THEN pc' = "failed" /\ m' = [m EXCEPT !.ce = ce, !.reg = reg, !.err = reg.err]
           ELSE pc' = "backward" /\ m' = [m EXCEPT !.ce = ce, !.reg = reg]
    /\ UNCHANGED <<encs, dicts, tvs, hist, disk>>

\* lines 217 and 361: train_loss.backward() adds to the gradients
Backward ==
    /\ pc = "backward"
    /\ m' = [m EXCEPT !.grads = @ + 1, !.backwards = @ + 1,
                      !.syncs = IF SyncsOnBackward(m.i, m.cfg.grad_accum_steps)
                                    THEN @ + 1 ELSE @]
    /\ hist' = Append(hist, [op |-> "backward", epoch |-> m.epoch, dataset |-> m.dataset,
                             i |-> m.i, train_step |-> m.train_step,
                             grads |-> m.grads + 1,
                             synced |-> SyncsOnBackward(m.i, m.cfg.grad_accum_steps)])
    /\ pc' = "accumulate"
    /\ UNCHANGED <<encs, dicts, tvs, disk>>

\* lines 231-235 and 374-378: scheduler, clipping, optimizer.step() and
\* optimizer.zero_grad() on the last micro-batch of a group
OptimizerStepOfRun ==
    /\ pc = "accumulate" /\ (m.i + 1) % m.cfg.grad_accum_steps = 0
    /\ \E U \in TrainedUs :
           m' = [m EXCEPT !.U = U, !.grads = 0, !.syncs = 0, !.i = @ + 1]
    /\ hist' = Append(hist, [op |-> "step", epoch |-> m.epoch, dataset |-> m.dataset,
                             i |-> m.i, train_step |-> m.train_step,
                             grads |-> m.grads, synced |-> m.syncs])
    /\ pc' = "loop"
    /\ UNCHANGED <<encs, dicts, tvs, disk>>

\* the other micro-batches: the gradients stay
KeepGradients ==
    /\ pc = "accumulate" /\ (m.i + 1) % m.cfg.grad_accum_steps # 0
    /\ m' = [m EXCEPT !.i = @ + 1]
    /\ pc' = "loop"
    /\ UNCHANGED <<encs, dicts, tvs, hist, disk>>

\* the loader is exhausted: the next dataset of the epoch, the next epoch, or
\* the end of the training
EndOfLoader ==
    /\ pc = "loop" /\ m.i = m.cfg.train_num_batches
    /\ IF m.dataset < LoopsPerEpoch(m.cfg)
           THEN /\ m' = [m EXCEPT !.dataset = @ + 1, !.i = 0,
                                  !.carried = @ \cup {m.grads}]
                /\ pc' = "loop"
       ELSE IF m.epoch + 1 < m.cfg.epochs
           THEN /\ m' = [m EXCEPT !.epoch = @ + 1, !.dataset = 1, !.i = 0,
                                  !.carried = @ \cup {m.grads}]
                /\ pc' = "loop"
       ELSE m' = m /\ pc' = "trained"
    /\ UNCHANGED <<encs, dicts, tvs, hist, disk>>

NextTrain ==
    \/ CheckParams \/ CreateOptimizer \/ LoadData \/ NextBatch \/ ComputeLoss
    \/ Backward \/ OptimizerStepOfRun \/ KeepGradients \/ EndOfLoader

SpecTrain == InitTrain /\ [][NextTrain]_vars

\* ------------------------------------------------------------------------
\* datasets/common.py: get_features and the feature cache
\* ------------------------------------------------------------------------

\* The class names of the dataset wrappers get_features is called with
DatasetNames == {"DTD", "MNIST"}

\* The number of elements of a batch of the loader: (images, labels) or
\* (images, labels, metadata)
BatchFormats == {2, 3}

\* line 120: split = "train" if is_train else "val"
SplitOf(is_train) == IF is_train THEN "train" ELSE "val"

\* line 123: f"{image_encoder.cache_dir}/{dname}/{split}"
CacheDirOf(root, dname, split) == <<root, dname, split>>

\* The directories of the cache under the root "cache"
CacheDirs == {CacheDirOf("cache", d, SplitOf(t)) : d \in DatasetNames, t \in BOOLEAN}

\* lines 64-69: maybe_dictionarize on a tuple of n elements; the keys of the
\* dictionary, or ValueError
MaybeDictionarize(n) ==
    IF n = 2 THEN Returned({"images", "labels"}, {})
    ELSE IF n = 3 THEN Returned({"images", "labels", "metadata"}, {})
    ELSE Raised("ValueError")

\* The value stored under a key: what it was computed from, and by which run
FeatureValue(key, dname, split, origin) ==
    [key |-> key, dname |-> dname, split |-> split, origin |-> origin]

\* lines 74-111: get_features_helper; "features" from the encoder and every
\* key of the batches but "images"
GetFeaturesHelper(format, dname, split) ==
    LET batch == MaybeDictionarize(format)
    IN  IF batch.err # "none" THEN batch
        ELSE LET keys == {"features"} \cup (batch.val \ {"images"})
             IN  Returned([k \in keys |-> FeatureValue(k, dname, split, "computed")], {})

\* line 144: the file f"{cache_dir}/{name}.pt"
FileOf(name) == [stem |-> name, ext |-> "pt"]

\* line 129: os.path.splitext(os.path.basename(cached_file))[0]
NameOf(file) == file.stem

\* line 124: glob.glob(f"{cache_dir}/*"), the names of the files
Glob(files, cache_dir) == DOMAIN files[cache_dir]

\* lines 114-145: get_features; the result, whether the encoder ran, and the
\* files afterwards.  cache_dir and cached_files are assigned at 123-124
\* only when the encoder has a cache directory; the message at 132-135
\* reads cache_dir
GetFeatures(is_train, cache_dir, dname, format, files) ==
    LET split == SplitOf(is_train)
        dir   == CacheDirOf(cache_dir, dname, split)
        data  == GetFeaturesHelper(format, dname, split)
    IN  IF cache_dir # "None" /\ Glob(files, dir) # {}
            THEN [ret |-> Returned([n \in {NameOf(f) : f \in Glob(files, dir)} |->
                                       files[dir][FileOf(n)]], {}),
                  ran |-> FALSE, files |-> files]
        ELSE IF cache_dir = "None"
            THEN [ret |-> Raised("UnboundLocalError"), ran |-> FALSE, files |-> files]
        ELSE IF data.err # "none" THEN [ret |-> data, ran |-> TRUE, files |-> files]
        ELSE [ret |-> data, ran |-> TRUE,
              files |-> [files EXCEPT ![dir] =
                            [f \in {FileOf(n) : n \in DOMAIN data.val} |->
                                data.val[NameOf(f)]]]]

\* The files an earlier run left in a directory for a loader of a format
CachedBefore(format, dir) ==
    LET data == GetFeaturesHelper(format, dir[2], dir[3]).val
    IN  [f \in {FileOf(n) : n \in DOMAIN data} |->
            FeatureValue(NameOf(f), dir[2], dir[3], "cached")]

\* An encoder with or without a cache directory, loaders of one format, and
\* every cache directory empty or filled by an earlier run
InitFeatures ==
    /\ \E cache_dir \in {"None", "cache"}, format \in BatchFormats :
           m = [cache_dir |-> cache_dir, format |-> format, calls |-> 0]
    /\ \E filled \in SUBSET CacheDirs :
           disk = [dir \in CacheDirs |->
                       IF dir \in filled THEN CachedBefore(m.format, dir) ELSE EmptyMap]
    /\ hist = << >>
    /\ pc = "features"
    /\ encs = << >> /\ dicts = << >> /\ tvs = << >>

\* A call of get_features(is_train, image_encoder, dataset, device)
CallGetFeatures ==
    /\ pc = "features" /\ m.calls < MaxFeatureCalls
    /\ \E is_train \in BOOLEAN, dname \in DatasetNames :
           LET r == GetFeatures(is_train, m.cache_dir, dname, m.format, disk)
           IN  /\ disk' = r.files
               /\ hist' = Append(hist, [op |-> "get_features", is_train |-> is_train,
                                        dname |-> dname, before |-> disk,
                                        after |-> r.files, ran |-> r.ran, ret |-> r.ret])
    /\ m' = [m EXCEPT !.calls = @ + 1]
    /\ UNCHANGED <<encs, dicts, tvs, pc>>

NextFeatures == CallGetFeatures

SpecFeatures == InitFeatures /\ [][NextFeatures]_vars

\* ------------------------------------------------------------------------
\* Properties
\* ------------------------------------------------------------------------

Returned_(c, op) == c.op = op /\ c.err = "none"

\* a + b and c * a as the claims write them: torch's arithmetic on two tensors
Plus(a, b) == TensorAdd(a, b)

Minus(a, b) == TensorSub(a, b)

Times(c, a) == ScalarMul(c, a)

\* a tensor held by a parameter of the dtype and shape of param
HeldBy(param, t, cast) == CopyInto(param, t, cast)

\* C1: apply_to(base, c) returns an encoder whose parameter map has exactly the
\* base's keys; at a key of the vector it holds base[k] + c * vector[k] (held
\* in the base parameter's dtype: unchanged for a float32 parameter), at any
\* other key the base's value, a mismatch is only printed; keys that only the
\* vector has are ignored; without a coefficient, c is 1.0.
C1_ApplyTo ==
    Returned_(last, "apply_to") =>
        LET vector == VectorOf(Heap, last.a)
            base   == encs[last.b]
            result == encs[last.out]
        IN  /\ DOMAIN result = DOMAIN base
            /\ \E cast \in Casts : \A k \in DOMAIN base :
                   IF k \in DOMAIN vector
                       THEN /\ result[k] = HeldBy(base[k],
                                               Plus(base[k], Times(last.coef, vector[k])),
                                               cast)
                            /\ IsFloat(base[k].dt) =>
                                   result[k] = Plus(base[k], Times(last.coef, vector[k]))
                   ELSE result[k] = base[k]
            /\ last.warn = (DOMAIN base) \ (DOMAIN vector)
            /\ last.dflt => last.coef = One

\* C1, witness: an application that changes the value at a shared key and
\* leaves a key the vector lacks, then one to a base that lacks a key of the
\* vector
C1_Witness ==
    /\ Len(hist) = 2
    /\ Returned_(hist[1], "apply_to") /\ hist[1].warn # {}
    /\ hist[1].coef \notin {0, One}
    /\ \E k \in DOMAIN encs[hist[1].b] : encs[hist[1].out][k] # encs[hist[1].b][k]
    /\ Returned_(hist[2], "apply_to")
    /\ (DOMAIN VectorOf(Heap, hist[2].a)) \ (DOMAIN encs[hist[2].b]) # {}

\* C2: TaskVector(pretrained, finetuned) has exactly the non-excluded keys of
\* the pretrained map, with finetuned[k] - pretrained[k] at each; keys that
\* only the finetuned map has never appear.
C2_Construct ==
    Returned_(last, "init") =>
        LET pre    == encs[last.a]
            fin    == encs[last.b]
            vector == VectorOf(Heap, last.out)
        IN  /\ DOMAIN vector = {k \in DOMAIN pre : pre[k].dt \notin {"int64", "uint8"}}
            /\ \A k \in DOMAIN vector : vector[k] = Minus(fin[k], pre[k])
            /\ (DOMAIN fin) \ (DOMAIN pre) \subseteq Keys \ DOMAIN vector

\* C2, witness: a construction where the finetuned map has a key of its own,
\* the pretrained map has an excluded key, and a difference is not zero
C2_Witness ==
    /\ Returned_(last, "init")
    /\ (DOMAIN encs[last.b]) \ (DOMAIN encs[last.a]) # {}
    /\ (DOMAIN encs[last.a]) \ (DOMAIN VectorOf(Heap, last.out)) # {}
    /\ \E k \in DOMAIN VectorOf(Heap, last.out) : VectorOf(Heap, last.out)[k].v # 0

\* a key that both maps have, with different shapes
ShapeMismatch(x, y) == \E k \in (DOMAIN x) \cap (DOMAIN y) : x[k].sh # y[k].sh

\* C3: a + b has the keys of a that b has too, with a[k] + b[k] at each; a key
\* of a that b lacks is skipped with a diagnostic, and the call still returns.
C3_Add ==
    last.op = "add" =>
        LET a == VectorOf(Heap, last.a)
            b == VectorOf(Heap, last.b)
        IN  /\ ~ShapeMismatch(a, b) => last.err = "none"
            /\ last.err = "none" =>
                   LET sum == VectorOf(Heap, last.out)
                   IN  /\ DOMAIN sum = (DOMAIN a) \cap (DOMAIN b)
                       /\ \A k \in DOMAIN sum : sum[k] = Plus(a[k], b[k])
                       /\ last.warn = (DOMAIN a) \ (DOMAIN b)

\* C3, witness: a sum that skipped a key and kept another, with a nonzero value
C3_Witness ==
    /\ Returned_(last, "add")
    /\ last.warn # {}
    /\ \E k \in DOMAIN VectorOf(Heap, last.out) : VectorOf(Heap, last.out)[k].v # 0

\* a key at which the construction subtracts tensors of different shapes
InitShapeMismatch(pre, fin) ==
    \E k \in (DOMAIN pre) \cap (DOMAIN fin) :
        pre[k].dt \notin ExcludedDTypes /\ pre[k].sh # fin[k].sh

\* C4: construction, add and apply_to fail with an error when a key present on
\* both sides has different shapes; nothing is produced by broadcasting.
C4_ShapeMismatchIsFatal ==
    /\ last.op = "init" /\ InitShapeMismatch(encs[last.a], encs[last.b]) => last.err # "none"
    /\ last.op = "add" /\ ShapeMismatch(VectorOf(Heap, last.a), VectorOf(Heap, last.b))
           => last.err # "none"
    /\ last.op = "apply_to" /\ ShapeMismatch(VectorOf(Heap, last.a), encs[last.b])
           => last.err # "none"

\* 2^Prec: the reciprocal of the unit roundoff u
U == Pow2(Prec)

\* two parameter maps of one architecture: the same keys, dtypes and shapes
SameArch(x, y) ==
    /\ DOMAIN x = DOMAIN y
    /\ \A k \in DOMAIN x : x[k].dt = y[k].dt /\ x[k].sh = y[k].sh

\* call j applies, with coefficient 1.0, the vector that call i constructed to
\* the pretrained encoder it was constructed from
Recovers(i, j) ==
    /\ i < j
    /\ Returned_(hist[i], "init") /\ Returned_(hist[j], "apply_to")
    /\ hist[j].a = hist[i].out /\ hist[j].b = hist[i].a /\ hist[j].coef = One
    /\ SameArch(encs[hist[i].a], encs[hist[i].b])

\* C5 as stated: apply_to(pretrained, 1.0) of TaskVector(pretrained, finetuned)
\* has exactly the finetuned value at every shared key.
C5_RecoversExactly ==
    \A i, j \in DOMAIN hist :
        Recovers(i, j) =>
            \A k \in (DOMAIN VectorOf(Heap, hist[i].out)) \cap (DOMAIN encs[hist[i].a]) :
                encs[hist[j].out][k] = encs[hist[i].b][k]

\* C5, amended: at every shared floating-point key the result r is the
\* finetuned value f within rounding, |r - f| <= u|f| + (u + u^2)|f - p| for the
\* pretrained value p and the unit roundoff u, and exactly f when f - p is
\* representable.
C5_RecoversWithinRounding ==
    \A i, j \in DOMAIN hist :
        Recovers(i, j) =>
            \A k \in (DOMAIN VectorOf(Heap, hist[i].out)) \cap (DOMAIN encs[hist[i].a]) :
                LET p == encs[hist[i].a][k].v
                    f == encs[hist[i].b][k].v
                    r == encs[hist[j].out][k]
                IN  IsFloat(encs[hist[i].a][k].dt) =>
                        /\ r.dt = "float32" /\ r.sh = encs[hist[i].b][k].sh
                        /\ Abs(r.v - f) * U * U <= U * Abs(f) + (U + 1) * Abs(f - p)
                        /\ Fl(f - p) = f - p => r.v = f

\* C5, witness: the finetuned value, different from the pretrained one, is
\* recovered
C5_Witness ==
    /\ Len(hist) = 2 /\ Recovers(1, 2)
    /\ \E k \in DOMAIN encs[hist[1].a] :
           /\ encs[hist[2].out][k] = encs[hist[1].b][k]
           /\ encs[hist[1].b][k] # encs[hist[1].a][k]

\* calls i and j apply the same vector to the same base, call j with 1.0
SameApplication(i, j) ==
    /\ i # j
    /\ Returned_(hist[i], "apply_to") /\ Returned_(hist[j], "apply_to")
    /\ hist[i].a = hist[j].a /\ hist[i].b = hist[j].b /\ hist[j].coef = One

\* the value of the vector at key k, 0 when it has no such key
ValueAt(vector, k) == IF k \in DOMAIN vector THEN vector[k].v ELSE 0

C7_AdditiveIdentity ==
    \A i \in DOMAIN hist :
        Returned_(hist[i], "init") /\ hist[i].a = hist[i].b =>
            /\ \A k \in DOMAIN VectorOf(Heap, hist[i].out) :
                   VectorOf(Heap, hist[i].out)[k].v = 0
            /\ \A j \in DOMAIN hist :
                   j > i /\ Returned_(hist[j], "apply_to") /\ hist[j].a = hist[i].out =>
                       encs[hist[j].out] = encs[hist[j].b]

\* C8: add, negate and apply_to leave the mappings of every task vector and the
\* parameters of every encoder as they were, and what they return is a new
\* object: a sum or a negation is a TaskVector with a new dict of its own.
C8_OperandsUnchanged ==
    [][\A c \in {hist'[n] : n \in (DOMAIN hist') \ (DOMAIN hist)} :
           c.op \in {"add", "neg", "apply_to"} =>
               /\ \A d \in DOMAIN dicts : d \in DOMAIN dicts' /\ dicts'[d] = dicts[d]
               /\ \A t \in DOMAIN tvs : t \in DOMAIN tvs' /\ tvs'[t] = tvs[t]
               /\ \A e \in DOMAIN encs : e \in DOMAIN encs' /\ encs'[e] = encs[e]
               /\ c.op \in {"add", "neg"} /\ c.err = "none" =>
                      /\ c.out \in (DOMAIN tvs') \ (DOMAIN tvs)
                      /\ tvs'[c.out].vector \in (DOMAIN dicts') \ (DOMAIN dicts)
               /\ c.op = "apply_to" /\ c.err = "none" =>
                      c.out \in (DOMAIN encs') \ (DOMAIN encs)]_vars

\* C8, witness: a sum that differs from both operands, then an application
\* that differs from its base
C8_Witness ==
    /\ Len(hist) = 2
    /\ Returned_(hist[1], "add")
    /\ VectorOf(Heap, hist[1].out) # VectorOf(Heap, hist[1].a)
    /\ VectorOf(Heap, hist[1].out) # VectorOf(Heap, hist[1].b)
    /\ Returned_(hist[2], "apply_to")
    /\ encs[hist[2].out] # encs[hist[2].b]

\* C9: once a TaskVector is constructed its keys and values are never changed
\* in place, in every step of the main flow.
C9_NeverChangedInPlace ==
    [][\A t \in DOMAIN tvs :
           /\ t \in DOMAIN tvs' /\ tvs'[t] = tvs[t]
           /\ dicts'[tvs[t].vector] = dicts[tvs[t].vector]]_vars

\* the left fold ((v1 + v2) + ...) + vn of the first n vectors of the main flow
RECURSIVE LeftFold(_)
LeftFold(n) ==
    IF n = 1 THEN VectorOf(Heap, m.vectors[1])
    ELSE LET acc == LeftFold(n - 1)
             v   == VectorOf(Heap, m.vectors[n])
         IN  [k \in (DOMAIN acc) \cap (DOMAIN v) |-> Plus(acc[k], v[k])]

C11_Negate ==
    \A i \in DOMAIN hist :
        hist[i].op = "neg" =>
            LET a   == VectorOf(Heap, hist[i].a)
                neg == VectorOf(Heap, hist[i].out)
            IN  /\ hist[i].err = "none"
                /\ DOMAIN neg = DOMAIN a
                /\ \A k \in DOMAIN a :
                       /\ neg[k].v = -a[k].v
                       /\ neg[k].dt = a[k].dt /\ neg[k].sh = a[k].sh

\* C11, witness: the negation of a vector of two keys, one of them not zero
C11_Witness ==
    /\ Returned_(last, "neg")
    /\ Cardinality(DOMAIN VectorOf(Heap, last.out)) >= 2
    /\ \E k \in DOMAIN VectorOf(Heap, last.out) : VectorOf(Heap, last.out)[k].v # 0

\* calls i, j, k compute s = v1 + v2, then -s, then (-s) + s
Closure(i, j, k) ==
    /\ i < j /\ j < k
    /\ Returned_(hist[i], "add")
    /\ hist[j].op = "neg" /\ hist[j].a = hist[i].out
    /\ hist[k].op = "add" /\ hist[k].a = hist[j].out /\ hist[k].b = hist[i].out

\* C12: with s = v1 + v2, the vector (-s) + s has the keys of s, which are the
\* keys v1 and v2 share, and the value zero at every key.
C12_Closure ==
    \A i, j, k \in DOMAIN hist :
        Closure(i, j, k) =>
            LET v1   == VectorOf(Heap, hist[i].a)
                v2   == VectorOf(Heap, hist[i].b)
                sum  == VectorOf(Heap, hist[i].out)
                zero == VectorOf(Heap, hist[k].out)
            IN  /\ hist[j].err = "none" /\ hist[k].err = "none"
                /\ DOMAIN zero = DOMAIN sum
                /\ DOMAIN zero = (DOMAIN v1) \cap (DOMAIN v2)
                /\ \A key \in DOMAIN zero :
                       /\ zero[key].v = 0
                       /\ zero[key].dt = sum[key].dt /\ zero[key].sh = sum[key].sh

\* C12, witness: (-s) + s for the sum s of two vectors with different key sets
\* and a value of s that is not zero
C12_Witness ==
    /\ Len(hist) = 3 /\ Closure(1, 2, 3)
    /\ DOMAIN VectorOf(Heap, hist[1].a) # DOMAIN VectorOf(Heap, hist[1].b)
    /\ \E key \in DOMAIN VectorOf(Heap, hist[1].out) :
           VectorOf(Heap, hist[1].out)[key].v # 0

\* C13: a task vector constructed from two checkpoints has no key whose tensor
\* in the pretrained map has an integer dtype, whichever integer dtype it is.
C13_NoIntegerKeys ==
    \A i \in DOMAIN hist :
        Returned_(hist[i], "init") =>
            \A k \in DOMAIN VectorOf(Heap, hist[i].out) :
                encs[hist[i].a][k].dt \notin IntDTypes

\* a key of the pretrained map that the finetuned map lacks
MissingKeys(pre, fin) == (DOMAIN pre) \ (DOMAIN fin)

\* C14 as stated: the construction fails whenever the finetuned map lacks a key
\* of the pretrained map.
C14_FailsOnAnyMissingKey ==
    \A i \in DOMAIN hist :
        hist[i].op = "init" /\ MissingKeys(encs[hist[i].a], encs[hist[i].b]) # {}
            => hist[i].err # "none"

\* C14, amended: the construction fails with an error, and produces no vector,
\* whenever the finetuned map lacks a key of the pretrained map whose dtype is
\* not excluded; lacking only keys of an excluded dtype does not make it fail.
C14_FailsOnMissingKey ==
    [][\A c \in {hist'[n] : n \in (DOMAIN hist') \ (DOMAIN hist)} :
           c.op = "init" =>
               LET pre     == encs[c.a]
                   fin     == encs[c.b]
                   missing == MissingKeys(pre, fin)
               IN  /\ (\E k \in missing : pre[k].dt \notin {"int64", "uint8"}) =>
                          /\ c.err # "none" /\ c.out = 0
                          /\ tvs' = tvs /\ dicts' = dicts /\ encs' = encs
                   /\ ( /\ \A k \in missing : pre[k].dt \in {"int64", "uint8"}
                        /\ ~InitShapeMismatch(pre, fin) ) =>
                          c.err = "none" /\ c.out \in (DOMAIN tvs') \ (DOMAIN tvs)]_vars

\* C14, witness: a construction failed with KeyError on a pretrained map that
\* also holds a key the constructor would have kept
C14_Witness ==
    /\ last.op = "init" /\ last.err = "KeyError"
    /\ MissingKeys(encs[last.a], encs[last.b]) # {}
    /\ (DOMAIN encs[last.a]) \cap (DOMAIN encs[last.b]) # {}
    /\ Len(tvs) = 1

\* call j loads the path that call i saved, with no save to it in between
LoadsSaved(i, j) ==
    /\ i < j
    /\ hist[i].op = "save" /\ hist[j].op = "load" /\ hist[j].b = hist[i].b
    /\ \A n \in (i + 1)..(j - 1) : ~(hist[n].op = "save" /\ hist[n].b = hist[i].b)

\* C15: for every task vector v and path, v.save_vector(path) followed by
\* load_vector(path) returns a TaskVector with the keys of v and the same
\* value at every key.
C15_RoundTrip ==
    \A i, j \in DOMAIN hist :
        LoadsSaved(i, j) =>
            /\ hist[i].err = "none" /\ hist[j].err = "none"
            /\ VectorOf(Heap, hist[j].out) = VectorOf(Heap, hist[i].a)

\* C15 on the paths that have a directory: the round trip returns a new
\* TaskVector with the mapping that was saved
C15_RoundTripInDirectory ==
    \A i, j \in DOMAIN hist :
        LoadsSaved(i, j) /\ Dirname(Paths[hist[i].b]) # << >> =>
            /\ hist[i].err = "none" /\ hist[j].err = "none"
            /\ VectorOf(Heap, hist[j].out) = VectorOf(Heap, hist[i].a)
            /\ hist[j].out # hist[i].a
            /\ tvs[hist[j].out].vector # tvs[hist[i].a].vector

\* the arguments the layout of the path is said to encode
IdentityArgs ==
    {"model_architecture", "pretrained_to_transfer", "pretrained", "finetuning_type",
     "lr", "wd", "ls", "rank", "alpha", "batch_size", "seed", "eval_datasets"}

\* C16: two runs whose configurations differ in the architecture, the source
\* or target pretrained weights, the mode, lr, wd, ls, rank, alpha, batch size,
\* seed or dataset list never save their task vector under the same path.
C16_PathInjective ==
    pc = "paths" =>
        \A i, j \in DOMAIN m.runs :
            /\ m.runs[i].stage = "saved" /\ m.runs[j].stage = "saved"
            /\ \E f \in IdentityArgs : m.runs[i].given[f] # m.runs[j].given[f]
            => m.runs[i].path # m.runs[j].path

\* C16 on the arguments the path does tell apart: two runs with the same
\* accumulation steps, a batch size the steps divide and the mode "lora" that
\* differ in an argument other than the target weights save under different
\* paths
C16_PathTellsApart ==
    pc = "paths" =>
        \A i, j \in DOMAIN m.runs :
            /\ m.runs[i].stage = "saved" /\ m.runs[j].stage = "saved"
            /\ \E f \in IdentityArgs \ {"pretrained"} :
                   m.runs[i].given[f] # m.runs[j].given[f]
            /\ \A r \in {i, j} :
                   /\ m.runs[r].given.finetuning_type = "lora"
                   /\ m.runs[r].given.batch_size % m.runs[r].given.grad_accum_steps = 0
            /\ m.runs[i].given.grad_accum_steps = m.runs[j].given.grad_accum_steps
            => m.runs[i].path # m.runs[j].path

\* the result of a forward call is a matrix of shape (batch, cols)
HasShape(out, batch, cols) ==
    out.err = "none" /\ Rows(out.val) = batch /\ Cols(out.val) = cols

\* C17: for every in_features, out_features, rank r >= 0 and bias setting,
\* LoRALayer.forward on an input of shape (batch, in_features) completes and
\* returns a correction of shape (batch, out_features).
C17_ForwardShape ==
    pc = "layer" =>
        \A i \in DOMAIN hist :
            hist[i].op = "forward" =>
                HasShape(hist[i].out, hist[i].batch, m.layer.out_features)

\* C17 on the layers with in_features = out_features: forward completes and
\* returns a correction of shape (batch, out_features)
C17_ForwardShapeSquare ==
    pc = "layer" =>
        \A i \in DOMAIN hist :
            hist[i].op = "forward" /\ m.layer.in_features = m.layer.out_features =>
                HasShape(hist[i].out, hist[i].batch, m.layer.out_features)

\* C17 on the other layers: forward raises
C17_ForwardRaisesUnlessSquare ==
    pc = "layer" =>
        \A i \in DOMAIN hist :
            hist[i].op = "forward" /\ m.layer.in_features # m.layer.out_features =>
                hist[i].out.err = "RuntimeError"

\* every element of the matrix is zero
IsZero(M) == \A i \in DOMAIN M : \A j \in DOMAIN M[i] : M[i][j] = 0

\* no call before call i has changed B, D or the bias since the construction:
\* reset_parameters draws A again and randomize replaces U
Fresh(i) ==
    \A n \in 1..(i - 1) :
        hist[n].op \in {"forward", "Linear.forward", "reset_parameters", "randomize"}

\* the forward call i returned the all-zero correction
ZeroCorrection(i) ==
    /\ HasShape(hist[i].out, hist[i].batch, m.layer.out_features)
    /\ IsZero(hist[i].out.val)

\* the Linear.forward call i returned the output of the base layer
BaseOutput(i) ==
    /\ hist[i].out.err = "none" /\ hist[i].base.err = "none"
    /\ hist[i].out.val = hist[i].base.val

\* C18: for any in_features, out_features, r and alpha, a freshly constructed
\* layer returns the all-zero correction for every input, whatever A and U
\* hold, and the forward of a freshly constructed Linear returns the output of
\* its base layer.
C18_ZeroAtInit ==
    pc = "layer" =>
        \A i \in DOMAIN hist :
            Fresh(i) =>
                /\ hist[i].op = "forward" => ZeroCorrection(i)
                /\ hist[i].op = "Linear.forward" => BaseOutput(i)

\* C18 on the layers with in_features = out_features
C18_ZeroAtInitSquare ==
    pc = "layer" =>
        \A i \in DOMAIN hist :
            Fresh(i) /\ m.layer.in_features = m.layer.out_features =>
                /\ hist[i].op = "forward" => ZeroCorrection(i)
                /\ hist[i].op = "Linear.forward" => BaseOutput(i)

\* a fresh square layer of rank r > 0 whose U was replaced returned the zero
\* correction, and a fresh square Linear the non-zero output of its base layer
C18_SquareReached ==
    /\ pc = "layer" /\ Len(hist) = 2
    /\ m.layer.in_features = m.layer.out_features /\ m.layer.r > 0
    /\ m.layer.U # Eye(m.layer.in_features)
    /\ hist[1].op = "randomize" /\ Fresh(2)
    /\ hist[2].op = "Linear.forward" /\ BaseOutput(2) /\ ~IsZero(hist[2].out.val)

\* a Linear built without a bias tensor: the constructor raises at line 113
C18_LinearWithoutBias ==
    pc = "layer" /\ m.stage # "args" =>
        (m.stage = "failed" <=> m.args.kind = "Linear" /\ ~m.args.bias)

\* the call that has just been made on the layer
LastLayerCall == hist'[Len(hist')]

\* every correction parameter of the layer is zero
CorrectionParamsZero(self) ==
    IF self.r > 0 THEN IsZero(self.A) /\ IsZero(self.B)
    ELSE IsZero(self.D) /\ (self.bias => \A j \in DOMAIN self.b : self.b[j] = 0)

\* forward returns the all-zero correction on every input batch
ZeroOnEveryInput(self) ==
    \A x \in Batches(self.in_features) :
        LET out == Forward(self, x)
        IN  HasShape(out, Rows(x), self.out_features) /\ IsZero(out.val)

\* U is the identity as long as no randomize and no training step was made
IdentityUntilChanged ==
    (\A n \in DOMAIN hist : hist[n].op \notin {"randomize", "step"}) =>
        m.layer.U = Eye(m.layer.in_features)

\* C19: reset_parameters() and zero_parameters() leave U unchanged in every
\* state of the layer, U being the identity from the construction until
\* randomize() or training changes it; after zero_parameters() every
\* correction parameter (A and B, or D and the bias) is zero and the
\* correction is zero for every input.
C19_ResetAndZero ==
    [][pc = "layer" /\ m.stage = "built" /\ hist' # hist =>
           /\ IdentityUntilChanged'
           /\ LastLayerCall.op \in {"reset_parameters", "zero_parameters"} =>
                  m'.layer.U = m.layer.U
           /\ LastLayerCall.op = "zero_parameters" =>
                  CorrectionParamsZero(m'.layer) /\ ZeroOnEveryInput(m'.layer)]_vars

\* C19 with the zero correction on the layers with in_features = out_features
C19_ResetAndZeroSquare ==
    [][pc = "layer" /\ m.stage = "built" /\ hist' # hist =>
           /\ IdentityUntilChanged'
           /\ LastLayerCall.op \in {"reset_parameters", "zero_parameters"} =>
                  m'.layer.U = m.layer.U
           /\ LastLayerCall.op = "zero_parameters" =>
                  /\ CorrectionParamsZero(m'.layer)
                  /\ m.layer.in_features = m.layer.out_features =>
                         ZeroOnEveryInput(m'.layer)]_vars

\* zero_parameters was called on a square layer after a training step had
\* moved U off the identity
C19_SquareReached ==
    /\ pc = "layer" /\ Len(hist) = 2
    /\ hist[1].op = "step" /\ hist[2].op = "zero_parameters"
    /\ m.layer.in_features = m.layer.out_features
    /\ m.layer.U # Eye(m.layer.in_features)
    /\ CorrectionParamsZero(m.layer)

\* calls i and j add the same two task vectors in opposite orders
Swapped(i, j) ==
    /\ hist[i].op = "add" /\ hist[j].op = "add"
    /\ hist[i].a = hist[j].b /\ hist[i].b = hist[j].a

\* C27: for task vectors a and b, a + b and b + a are equal: the same key set
\* and the same value at every key (they fail together on shapes that do not
\* broadcast), although the diagnostic names only the keys of the left
\* operand that the right operand lacks.
C27_AddCommutes ==
    pc = "algebra" =>
        \A i, j \in DOMAIN hist :
            Swapped(i, j) =>
                /\ hist[i].err = hist[j].err
                /\ hist[i].err = "none" =>
                       /\ DOMAIN VectorOf(Heap, hist[i].out) = DOMAIN VectorOf(Heap, hist[j].out)
                       /\ VectorOf(Heap, hist[i].out) = VectorOf(Heap, hist[j].out)
                       /\ hist[i].warn = (DOMAIN VectorOf(Heap, hist[i].a))
                                             \ (DOMAIN VectorOf(Heap, hist[i].b))

\* C27, witness: two different task vectors were added in both orders, one
\* order with a diagnostic and the other without, and the sums hold a key
C27_Witness ==
    /\ pc = "algebra"
    /\ \E i, j \in DOMAIN hist :
           /\ Swapped(i, j) /\ hist[i].a # hist[i].b
           /\ hist[i].err = "none" /\ hist[j].err = "none"
           /\ hist[i].warn # {} /\ hist[j].warn = {}
           /\ DOMAIN VectorOf(Heap, hist[i].out) # {}
           /\ hist[i].out # hist[j].out

\* finetuned_i[k] - pretrained[k], summed over the first n finetuned encoders
\* of the main flow in their order
RECURSIVE SumOfDifferences(_, _)
SumOfDifferences(k, n) ==
    LET d == Minus(encs[m.finetuned[n]][k], encs[m.pretrained][k])
    IN  IF n = 1 THEN d ELSE Plus(SumOfDifferences(k, n - 1), d)

\* C28: the combined task vector of the main flow, built from N >= 1 finetuned
\* encoders and one pretrained encoder, holds at every key whose name contains
\* "Delta.U" the mean over the N encoders of finetuned_i[k] - pretrained[k],
\* and at every other key their sum; this vector is the one saved and the one
\* applied for every coefficient.
C28_CombinedVector ==
    pc \in {"save", "eval", "done"} =>
        LET v == VectorOf(Heap, m.task_vector)
            N == Len(m.finetuned)
        IN  /\ N >= 1
            /\ DOMAIN v = {k \in DOMAIN encs[m.pretrained] :
                               encs[m.pretrained][k].dt \notin ExcludedDTypes}
            /\ \A k \in DOMAIN v :
                   v[k] = IF HasDeltaU(k) THEN TensorDiv(SumOfDifferences(k, N), N)
                          ELSE SumOfDifferences(k, N)
            /\ pc # "save" =>
                   disk.task_vector.saved /\ disk.task_vector.vector = Serialize(v)
            /\ \A i \in DOMAIN hist :
                   hist[i].op = "apply_to" => hist[i].a = m.task_vector
            /\ pc = "done" =>
                   Cardinality({i \in DOMAIN hist : hist[i].op = "apply_to"}) = Len(m.info)

\* C28, witness: the flow ended after applying the combined vector of two
\* finetuned encoders for several coefficients, the vector holding a
\* "Delta.U" key whose mean is not the sum and another key
C28_Witness ==
    /\ pc = "done" /\ Len(m.finetuned) = 2 /\ Len(m.info) > 1
    /\ \E k \in DOMAIN VectorOf(Heap, m.task_vector) :
           /\ HasDeltaU(k)
           /\ VectorOf(Heap, m.task_vector)[k] # SumOfDifferences(k, 2)
    /\ \E k \in DOMAIN VectorOf(Heap, m.task_vector) :
           ~HasDeltaU(k) /\ VectorOf(Heap, m.task_vector)[k].v # 0

\* the run got no loss value from the regularizer: no backward pass and no
\* optimizer step were made
NoLossNoStep ==
    /\ m.backwards = 0 /\ hist = << >>
    /\ pc \notin {"backward", "accumulate", "trained"}

\* the regularizer was evaluated and raised the error e, which ended the run
RegularizerRaised(e) ==
    m.reg # NotCalled /\ m.reg.err = e /\ pc = "failed" /\ m.err = e

\* C21: a regularizer configured with a norm selector other than "fro" or
\* "spec" fails with ValueError as soon as it is evaluated, for every encoder
\* it is given; it never returns a loss value and no training step runs with
\* it.
C21_InvalidSelector ==
    m.cfg.adjust_type \notin {"fro", "spec"} =>
        /\ NoLossNoStep
        /\ m.reg # NotCalled => RegularizerRaised("ValueError")

\* C21 on the encoders with at least one transformer layer
C21_InvalidSelectorWithLayers ==
    m.cfg.adjust_type \notin {"fro", "spec"} =>
        /\ NoLossNoStep
        /\ m.reg # NotCalled =>
               IF m.cfg.layers > 0 THEN RegularizerRaised("ValueError")
               ELSE RegularizerRaised("ZeroDivisionError")

\* the regularizer of an invalid selector was built and evaluated on an
\* encoder with a transformer layer
C21_WithLayersReached ==
    /\ m.cfg.adjust_type \notin {"fro", "spec"} /\ m.cfg.layers > 0
    /\ m.orth_loss_fn /\ m.data /\ RegularizerRaised("ValueError")

\* C22: when the regularizer finds no rotation matrix (an encoder with zero
\* transformer layers) its evaluation fails with a division by zero and
\* returns no loss value.
C22_NoRotationMatrices ==
    m.cfg.layers = 0 =>
        /\ NoLossNoStep
        /\ m.reg # NotCalled => RegularizerRaised("ZeroDivisionError")

\* C22, witness: a regularizer with the selector "spec" was evaluated on an
\* encoder with zero layers and raised
C22_Witness ==
    /\ m.cfg.layers = 0 /\ m.cfg.adjust_type = "spec"
    /\ RotationsOf(m.cfg.layers, m.U) = << >>
    /\ RegularizerRaised("ZeroDivisionError")

\* C23: if no parameter of the encoder has its gradient-tracking flag enabled
\* after freezing, the run fails with an assertion before the optimizer is
\* created: no data is loaded for training and no backward pass or optimizer
\* step ever happens.
C23_NoTrainableParameters ==
    m.cfg.params = 0 =>
        /\ pc \in {"assert", "failed"}
        /\ pc = "failed" => m.err = "AssertionError"
        /\ ~m.optimizer /\ ~m.orth_loss_fn /\ ~m.data
        /\ m.reg = NotCalled
        /\ NoLossNoStep

\* C23, witness: the assertion has ended a run without trainable parameters
C23_Witness ==
    m.cfg.params = 0 /\ pc = "failed" /\ m.err = "AssertionError" /\ ~m.optimizer

\* micro-batch i completes a group of grad_accum_steps micro-batches
CompletesGroup(i) == (i + 1) % m.cfg.grad_accum_steps = 0

\* C24: the gradients are all-reduced across the workers exactly once per
\* optimizer step, only in the backward pass of the micro-batch that completes
\* a group of grad_accum_steps micro-batches; the backward passes of the other
\* micro-batches of the group trigger no synchronization.
C24_OneSyncPerStep ==
    \A n \in DOMAIN hist :
        /\ hist[n].op = "backward" => (hist[n].synced <=> CompletesGroup(hist[n].i))
        /\ hist[n].op = "step" => hist[n].synced = 1

\* C24 as the code has it: every backward pass all-reduces the gradients
C24_SyncOnEveryBackward ==
    \A n \in DOMAIN hist :
        /\ hist[n].op = "backward" => hist[n].synced
        /\ hist[n].op = "step" => hist[n].synced = hist[n].grads

\* the "step" records of the run
StepsOfRun == {n \in DOMAIN hist : hist[n].op = "step"}

\* C25: in both training modes every optimizer step applies the accumulated
\* gradients of exactly grad_accum_steps micro-batches, for any number of
\* batches per epoch, epochs and datasets: grad_accum_steps backward passes
\* lie between two consecutive steps (or between the start and the first
\* step), and no gradient accumulated in one epoch or one dataset's loop is
\* carried into the next.
C25_ExactAccumulation ==
    /\ \A n \in StepsOfRun : hist[n].grads = m.cfg.grad_accum_steps
    /\ m.carried \subseteq {0}

\* C25 when grad_accum_steps divides the number of batches of a loop
C25_ExactAccumulationWhenDivisible ==
    m.cfg.train_num_batches % m.cfg.grad_accum_steps = 0 =>
        /\ \A n \in StepsOfRun : hist[n].grads = m.cfg.grad_accum_steps
        /\ m.carried \subseteq {0}

\* a run of two loops whose batches the accumulation steps divide made a step
\* in the second loop
C25_DivisibleReached ==
    /\ pc = "trained" /\ m.cfg.grad_accum_steps = 2
    /\ m.cfg.train_num_batches % m.cfg.grad_accum_steps = 0
    /\ m.carried = {0}
    /\ \E n \in StepsOfRun : hist[n].epoch = 1

\* C26: in mix mode, each epoch iterating train_num_batches batches, the
\* train_step values handed to the scheduler at the optimizer steps of the
\* whole run are strictly increasing, and each is smaller than the number of
\* steps the scheduler was built for, (epochs * train_num_batches) //
\* grad_accum_steps.
C26_SchedulerSteps ==
    m.cfg.dataset_type = "mix" =>
        /\ \A a, b \in StepsOfRun :
               a < b => hist[a].train_step < hist[b].train_step
        /\ \A a \in StepsOfRun :
               /\ hist[a].train_step >= 0
               /\ hist[a].train_step < TotalSteps(m.cfg.epochs, m.cfg.train_num_batches,
                                                  m.cfg.grad_accum_steps)

\* C26, witness: a mix run of two epochs of three batches with two
\* accumulation steps has ended after steps in both epochs
C26_Witness ==
    /\ pc = "trained" /\ m.cfg.dataset_type = "mix"
    /\ m.cfg.epochs = 2 /\ m.cfg.train_num_batches = 3 /\ m.cfg.grad_accum_steps = 2
    /\ \E a, b \in StepsOfRun :
           hist[a].epoch = 0 /\ hist[b].epoch = 1 /\ hist[b].train_step = 1

\* C29: in mix mode the cross-entropy loss that is back-propagated for a
\* batch accounts for every sample of the batch, each one scored by the
\* classification head of the dataset the sample came from.
C29_EverySampleCounts ==
    (m.cfg.dataset_type = "mix" /\ pc \in {"backward", "accumulate"}) =>
        m.ce = {[sample |-> j, head |-> m.batch[j]] : j \in DOMAIN m.batch}

\* C29, what the loop leaves in train_ce_loss: the term of the last sample
\* of the batch, scored by the head of that sample's dataset
C29_LastSampleOnly ==
    (m.cfg.dataset_type = "mix" /\ pc \in {"backward", "accumulate"}) =>
        m.ce = {[sample |-> Len(m.batch), head |-> m.batch[Len(m.batch)]]}

\* C29: a mix batch of two samples has been back-propagated
C29_TwoSamplesReached ==
    /\ m.cfg.dataset_type = "mix" /\ pc = "accumulate"
    /\ Len(m.batch) = 2

\* The calls of get_features made so far
FeatureCalls == {c \in DOMAIN hist : hist[c].op = "get_features"}

\* The directory a call of get_features looks into
DirOfCall(c) == CacheDirOf(m.cache_dir, c.dname, SplitOf(c.is_train))

\* What the encoder computes for a call
ComputedFor(c) == GetFeaturesHelper(m.format, c.dname, SplitOf(c.is_train)).val

\* A call returned a dictionary that holds the features
ReturnedFeatures(c) == c.ret.err = "none" /\ "features" \in DOMAIN c.ret.val

\* Without a cache directory: computed, returned, nothing written
NoCacheCase(c) ==
    /\ ReturnedFeatures(c) /\ c.ran
    /\ c.ret.val = ComputedFor(c)
    /\ c.after = c.before

\* Cache directory set and empty: computed, one file per data key written,
\* returned
EmptyCacheCase(c) ==
    /\ ReturnedFeatures(c) /\ c.ran
    /\ c.ret.val = ComputedFor(c)
    /\ DOMAIN c.after[DirOfCall(c)] = {FileOf(k) : k \in DOMAIN c.ret.val}
    /\ \A k \in DOMAIN c.ret.val : c.after[DirOfCall(c)][FileOf(k)] = c.ret.val[k]
    /\ \A d \in CacheDirs \ {DirOfCall(c)} : c.after[d] = c.before[d]

\* Cached files exist: their contents returned, the encoder not run,
\* nothing written
CachedCase(c) ==
    /\ ReturnedFeatures(c) /\ ~c.ran
    /\ DOMAIN c.ret.val = {NameOf(f) : f \in DOMAIN c.before[DirOfCall(c)]}
    /\ \A f \in DOMAIN c.before[DirOfCall(c)] :
           c.ret.val[NameOf(f)] = c.before[DirOfCall(c)][f]
    /\ c.after = c.before

\* C30: get_features returns the features in every configuration: without a
\* cache directory it computes and returns them and writes nothing; with a
\* cache directory that holds no files it computes them, writes one file per
\* data key and returns them; with cached files it returns the cached
\* features and does not run the encoder.
C30_ReturnsFeatures ==
    \A c \in FeatureCalls :
        IF m.cache_dir = "None" THEN NoCacheCase(hist[c])
        ELSE IF hist[c].before[DirOfCall(hist[c])] = EmptyMap THEN EmptyCacheCase(hist[c])
        ELSE CachedCase(hist[c])

\* C30, with a cache directory: the two cases of the claim hold
C30_ReturnsFeaturesWithCacheDir ==
    m.cache_dir # "None" =>
        \A c \in FeatureCalls :
            IF hist[c].before[DirOfCall(hist[c])] = EmptyMap THEN EmptyCacheCase(hist[c])
            ELSE CachedCase(hist[c])

\* C30, without a cache directory: the call raises before the encoder runs
C30_RaisesWithoutCacheDir ==
    m.cache_dir = "None" =>
        \A c \in FeatureCalls :
            /\ hist[c].ret = Raised("UnboundLocalError")
            /\ ~hist[c].ran /\ hist[c].after = hist[c].before

\* C30: a first call has filled an empty cache directory and a second call
\* for the same dataset and split has read it back
C30_CacheReached ==
    /\ m.cache_dir # "None" /\ Len(hist) = 2
    /\ hist[1].dname = hist[2].dname /\ hist[1].is_train = hist[2].is_train
    /\ hist[1].ran /\ ~hist[2].ran
    /\ hist[2].ret.val = hist[1].ret.val

\* C30: get_features has been called on an encoder without cache directory
C30_NoCacheDirReached ==
    m.cache_dir = "None" /\ FeatureCalls # {}

====
